---------------------------- MODULE Spec2Model ----------------------------
(***************************************************************************)
(* Verification model of the plagiarism-detection core: the external-memory *)
(* index builders (level5/index_builder.cpp and etl_index_builder_v3.cpp),  *)
(* the index loaders and the single-index query engines                     *)
(* (levels_0_4/search_engine.cpp and common/search_core.cpp).               *)
(*                                                                         *)
(* TLC integers are 32 bit, so the 64-bit shingle hash keeps only its low   *)
(* HashBits bits, and the size constants of the program (K, the per-doc     *)
(* caps, the run soft cap, the merge fan-in, the validation windows) carry  *)
(* small values so that every branch they guard is reached.                 *)
(***************************************************************************)
EXTENDS Integers, Sequences, FiniteSets, TLC

(***************************************************************************)
(* Bounds of the model                                                      *)
(***************************************************************************)
HashBits == 16
MaxLines == 4
MaxWorkers == 2

(***************************************************************************)
(* Program constants (scaled)                                               *)
(***************************************************************************)
K == 2
MAX_TOKENS_PER_DOC == 4
MAX_SHINGLES_PER_DOC == 2
SHINGLE_STRIDE == 1
RUN_MAX_PAIRS == 2
RUN_MAX_POSTINGS == 2
MERGE_MAX_WAY == 2
MIN_MERGE_WAY == 2
MERGE_FANIN == 2
LINES_BATCH == 2
QUEUE_MAX_BATCH == 1
QUEUE_MAX_LINES == 1
FNV_OFFSET == 899
FNV_PRIME == 435
SPACE == 32

(***************************************************************************)
(* Generic helpers                                                          *)
(***************************************************************************)
Min(a, b) == IF a < b THEN a ELSE b

Max(a, b) == IF a > b THEN a ELSE b

Range(s) == {s[i] : i \in 1..Len(s)}

RECURSIVE Pow2(_)
Pow2(n) == IF n = 0 THEN 1 ELSE 2 * Pow2(n - 1)

RECURSIVE Xor(_, _)
Xor(a, b) ==
  IF a = 0 THEN b
  ELSE IF b = 0 THEN a
  ELSE (((a % 2) + (b % 2)) % 2) + 2 * Xor(a \div 2, b \div 2)

RECURSIVE Concat(_)
Concat(ss) == IF ss = <<>> THEN <<>> ELSE Head(ss) \o Concat(Tail(ss))

\* Lexicographic order on (hash, doc) pairs.
pair_less(a, b) == a[1] < b[1] \/ (a[1] = b[1] /\ a[2] < b[2])

\* std::sort of a set of distinct integers: the ascending sequence.
RECURSIVE SortSet(_)
SortSet(S) ==
  IF S = {} THEN <<>>
  ELSE LET m == CHOOSE x \in S : \A y \in S : x <= y
       IN <<m>> \o SortSet(S \ {m})

IsSortedPairs(s) ==
  \A i \in 1..(Len(s) - 1) : ~pair_less(s[i + 1], s[i])

StrictAsc(s) == \A i \in 1..(Len(s) - 1) : s[i] < s[i + 1]

(***************************************************************************)
(* Text pipeline: FNV-1a over the K tokens of a window joined by a space.   *)
(* A token is a sequence of bytes.                                          *)
(***************************************************************************)
fnv_mix(h, byte) == (Xor(h, byte) * FNV_PRIME) % Pow2(HashBits)

RECURSIVE fnv_bytes(_, _)
fnv_bytes(h, bytes) ==
  IF bytes = <<>> THEN h ELSE fnv_bytes(fnv_mix(h, Head(bytes)), Tail(bytes))

\* Variant that hashes the tokens of a window without the separating space.
RECURSIVE hash_join_NoSpace(_, _, _, _)
hash_join_NoSpace(h, toks, j, last) ==
  IF j > last THEN h
  ELSE hash_join_NoSpace(fnv_bytes(h, toks[j]), toks, j + 1, last)

RECURSIVE hash_join(_, _, _, _)
hash_join(h, toks, j, last) ==
  IF j > last THEN h
  ELSE hash_join(fnv_bytes(fnv_mix(h, SPACE), toks[j]), toks, j + 1, last)

\* hash of the window of k tokens starting at the 0-based position start
hash_shingle_tokens_spans(toks, start, k) ==
  hash_join(fnv_bytes(FNV_OFFSET % Pow2(HashBits), toks[start + 1]),
            toks, start + 2, start + k)

(***************************************************************************)
(* Builder: per-document work of a worker                                   *)
(***************************************************************************)
A == <<97>>
B == <<98>>

\* std::uint32_t, the type of doc ids and doc bases, scaled to U32_BITS bits
U32_BITS == 3

U32_MAX == Pow2(U32_BITS) - 1

u32(x) == x % Pow2(U32_BITS)

\* The lines a corpus is made of: the token sequence of the line's text
\* after normalization (one token: a text too short to be indexed).
DocSet ==
  { <<A>>, <<A, A, A>>, <<A, A, B, B>>, <<B, A, B, A, A>> }

\* spans.resize(MAX_TOKENS_PER_DOC)
CapTokens(toks) ==
  IF MAX_TOKENS_PER_DOC > 0 /\ Len(toks) > MAX_TOKENS_PER_DOC
  THEN SubSeq(toks, 1, MAX_TOKENS_PER_DOC) ELSE toks

\* The indexing loop: for (pos = 0; pos < cnt && produced < max_sh; pos += step)
RECURSIVE ProducedHashes(_, _, _, _, _)
ProducedHashes(toks, pos, cnt, produced, max_sh) ==
  IF pos < cnt /\ produced < max_sh
  THEN <<hash_shingle_tokens_spans(toks, pos, K)>>
       \o ProducedHashes(toks, pos + (IF SHINGLE_STRIDE > 0 THEN SHINGLE_STRIDE ELSE 1),
                         cnt, produced + 1, max_sh)
  ELSE <<>>

\* doc_hashes after the per-doc sort + unique; toks is already capped, Len >= K
DocHashes(toks) ==
  LET cnt == Len(toks) - K + 1
      max_sh == IF MAX_SHINGLES_PER_DOC > 0 THEN MAX_SHINGLES_PER_DOC ELSE cnt
  IN SortSet(Range(ProducedHashes(toks, 0, cnt, 0, max_sh)))

\* Insertion into a sequence of (hash, doc) records sorted by pair_less.
RECURSIVE InsertPair(_, _)
InsertPair(s, p) ==
  IF s = <<>> THEN <<p>>
  ELSE IF pair_less(p, Head(s)) THEN <<p>> \o s
  ELSE <<Head(s)>> \o InsertPair(Tail(s), p)

\* std::sort(recs, pair_less), duplicates kept
RECURSIVE SortRecs(_)
SortRecs(s) == IF s = <<>> THEN <<>> ELSE InsertPair(SortRecs(Tail(s)), Head(s))

\* std::unique: drops a record equal to its predecessor
RECURSIVE UniqueAdj(_)
UniqueAdj(s) ==
  IF Len(s) <= 1 THEN s
  ELSE IF s[1] = s[2] THEN UniqueAdj(Tail(s))
  ELSE <<Head(s)>> \o UniqueAdj(Tail(s))

(***************************************************************************)
(* Builder: run files and the k-way merges                                  *)
(*                                                                         *)
(* A run is [kind, tid, base, recs]: kind 1 = LOCAL doc ids of worker tid,  *)
(* kind 2 = GLOBAL doc ids; base is the remap base the v3 builder keeps in  *)
(* its parallel bases vector; recs is the sequence of <<hash, doc>>.        *)
(* A heap item is <<hash, key doc, emitted doc>>.                           *)
(***************************************************************************)
NoDoc == -1

\* Variant of reader_next_global that leaves the stored doc id as the heap key
\* and adds the offset only to the emitted record.
reader_next_global_LateRemap(run, doc_offsets) ==
  [i \in 1..Len(run.recs) |->
     LET p == run.recs[i]
         g == IF run.kind = 1 THEN u32(doc_offsets[run.tid + 1] + p[2]) ELSE p[2]
     IN <<p[1], p[2], g>>]

\* level5 reader_next_global: the record is remapped before it enters the heap
reader_next_global(run, doc_offsets) ==
  [i \in 1..Len(run.recs) |->
     LET p == run.recs[i]
         g == IF run.kind = 1 THEN u32(doc_offsets[run.tid + 1] + p[2]) ELSE p[2]
     IN <<p[1], g, g>>]

\* v3 RunCursor: the heap node carries the stored doc, base is added on pop
RunCursorItems(run) ==
  [i \in 1..Len(run.recs) |->
     <<run.recs[i][1], run.recs[i][2], u32(run.base + run.recs[i][2])>>]

\* v3 RunCursor::advance_checked accepts the run iff it is sorted as stored
advance_checked_ok(run) == IsSortedPairs(run.recs)

\* HeapCmp / heap_cmp: min-heap on (hash, key doc)
heap_less(x, y) == x[1] < y[1] \/ (x[1] = y[1] /\ x[2] < y[2])

\* Pop order of the heap over the cursors cur; tb picks among equal keys
\* (the order std::pop_heap gives equal keys is not specified).
RECURSIVE HeapMerge(_, _)
HeapMerge(cur, tb) ==
  LET live == {i \in 1..Len(cur) : cur[i] # <<>>}
  IN IF live = {} THEN <<>>
     ELSE LET mins == {i \in live :
                         \A j \in live : ~heap_less(Head(cur[j]), Head(cur[i]))}
              i == IF tb = "lo"
                   THEN CHOOSE x \in mins : \A y \in mins : x <= y
                   ELSE CHOOSE x \in mins : \A y \in mins : x >= y
          IN <<(<<Head(cur[i])[1], Head(cur[i])[3]>>)>>
             \o HeapMerge([cur EXCEPT ![i] = Tail(@)], tb)

\* level5 merge_runs_to_global_run: k-way merge, dedup against the last
\* emitted (h, doc), output is a GLOBAL run
merge_runs_to_global_run(group, doc_offsets) ==
  [kind |-> 2, tid |-> 0, base |-> 0,
   recs |-> UniqueAdj(HeapMerge([i \in 1..Len(group) |->
                                   reader_next_global(group[i], doc_offsets)], "lo"))]

\* v3 merge_runs_into_run: same, heap keyed on the stored doc
merge_runs_into_run(chunk, tb) ==
  [kind |-> 2, tid |-> 0, base |-> 0,
   recs |-> UniqueAdj(HeapMerge([i \in 1..Len(chunk) |->
                                   RunCursorItems(chunk[i])], tb))]

\* Variant of the grouping that puts every run in a group of its own.
Chunks_Single(runs, way) == [i \in 1..Len(runs) |-> <<runs[i]>>]

\* The groups of one reduction pass: runs i..j-1, i stepping by the fan-in
RECURSIVE Chunks(_, _)
Chunks(runs, way) ==
  IF runs = <<>> THEN <<>>
  ELSE LET j == Min(way, Len(runs))
       IN <<SubSeq(runs, 1, j)>> \o Chunks(SubSeq(runs, j + 1, Len(runs)), way)

\* level5 merge_runs_to_csr over the popped records
RECURSIVE EmitCsr5(_, _, _)
EmitCsr5(recs, i, st) ==
  IF i > Len(recs)
  THEN [uniq |-> st.uniq, off |-> Append(st.off, Len(st.did)), did |-> st.did]
  ELSE LET p == recs[i]
           new == ~st.have_hash \/ p[1] # st.cur_h
           s1 == IF new
                 THEN [st EXCEPT !.uniq = Append(@, p[1]),
                                 !.off = Append(@, Len(st.did)),
                                 !.cur_h = p[1], !.have_hash = TRUE,
                                 !.last_doc = NoDoc]
                 ELSE st
           s2 == IF p[2] # s1.last_doc
                 THEN [s1 EXCEPT !.did = Append(@, p[2]), !.last_doc = p[2]]
                 ELSE s1
       IN EmitCsr5(recs, i + 1, s2)

\* Variant of merge_runs_to_csr that does not write the final offset.
merge_runs_to_csr_NoFinalOff(runs, doc_offsets) ==
  LET c == EmitCsr5(HeapMerge([i \in 1..Len(runs) |->
                                 reader_next_global(runs[i], doc_offsets)], "lo"),
                    1,
                    [uniq |-> <<>>, off |-> <<>>, did |-> <<>>,
                     have_hash |-> FALSE, cur_h |-> 0, last_doc |-> NoDoc])
  IN [c EXCEPT !.off = SubSeq(@, 1, Len(@) - 1)]

merge_runs_to_csr(runs, doc_offsets) ==
  EmitCsr5(HeapMerge([i \in 1..Len(runs) |->
                        reader_next_global(runs[i], doc_offsets)], "lo"),
           1,
           [uniq |-> <<>>, off |-> <<>>, did |-> <<>>,
            have_hash |-> FALSE, cur_h |-> 0, last_doc |-> NoDoc])

\* v3 merge_runs_to_temp_csr over the popped records
RECURSIVE EmitCsrV3(_, _, _)
EmitCsrV3(recs, i, st) ==
  IF i > Len(recs)
  THEN [uniq |-> st.uniq, off |-> Append(st.off, Len(st.did)), did |-> st.did]
  ELSE LET p == recs[i]
           s1 == IF ~st.has_cur \/ st.cur_h # p[1]
                 THEN [st EXCEPT !.uniq = Append(@, p[1]),
                                 !.off = Append(@, Len(st.did)),
                                 !.cur_h = p[1], !.has_cur = TRUE]
                 ELSE st
           s2 == IF ~s1.have_last \/ p[1] # s1.last_h \/ p[2] # s1.last_docg
                 THEN [s1 EXCEPT !.did = Append(@, p[2]), !.have_last = TRUE,
                                 !.last_h = p[1], !.last_docg = p[2]]
                 ELSE s1
       IN EmitCsrV3(recs, i + 1, s2)

merge_runs_to_temp_csr(runs, tb) ==
  EmitCsrV3(HeapMerge([i \in 1..Len(runs) |-> RunCursorItems(runs[i])], tb),
            1,
            [uniq |-> <<>>, off |-> <<>>, did |-> <<>>,
             has_cur |-> FALSE, cur_h |-> 0,
             have_last |-> FALSE, last_h |-> 0, last_docg |-> 0])

(***************************************************************************)
(* Builder state                                                            *)
(***************************************************************************)
VARIABLES
  variant,     \* "level5" (level5/index_builder.cpp) or "v3" (etl_index_builder_v3.cpp)
  merge_max_way, \* level5 main: max(MIN_MERGE_WAY, PLAGIO_MERGE_MAX_WAY)
  corpus,      \* the non-empty lines of the input file, in file order
  numWorkers,  \* number of worker threads
  rdPos,       \* number of lines the reader has pushed
  rr,          \* v3 reader: queue the next line goes to
  queues,      \* queue id -> items (an item is a sequence of line numbers)
  closed,      \* queue id -> closed_
  wk,          \* worker id -> WorkerCtx / WorkerOut
  phase,       \* position of the main thread
  bases,       \* doc_offsets / bases, indexed by tid + 1
  runs,        \* live run files, in merge order
  pass,        \* number of reduction passes done
  all_ids,     \* doc_ids concatenated in worker order
  all_meta,    \* docs_meta concatenated in worker order
  csr,         \* the CSR tmp files written by the final merge
  tmpBin,      \* content of index_native.bin.tmp
  fsBin,       \* content of <out>/index_native.bin
  fsDocids,    \* content of <out>/index_native_docids.json
  exitCode     \* -1 while running, else the exit status of the process

buildVars ==
  <<variant, merge_max_way, corpus, numWorkers, rdPos, rr, queues, closed, wk, phase, bases,
    runs, pass, all_ids, all_meta, csr, tmpBin, fsBin, fsDocids, exitCode>>

\* State of the search service: the directory being loaded, the loader's
\* position, the Index objects, and the reader threads.
VARIABLES
  engine,      \* "SearchEngine" (search_engine.cpp) or "se" (search_core.cpp)
  pending,     \* the directories still to be loaded, each [bin, docids, cfg]
  dirBin,      \* index_native.bin of the directory being loaded
  dirDocids,   \* index_native_docids.json of that directory: [ok, ids]
  dirCfg,      \* index_config.json of that directory
  ldPc,        \* position of the thread inside load / se_load_index
  ldRet,       \* what the last load returned: "none", "ok" or "fail"
  cur,         \* the Index object the running load fills (0: none)
  objs,        \* the Index objects ever created, by id
  g_index,     \* id of the object g_index points to (0: nullptr)
  rd           \* reader thread -> [pc, ref]

serveVars ==
  <<engine, pending, dirBin, dirDocids, dirCfg, ldPc, ldRet, cur, objs,
    g_index, rd>>

\* State of one search_text / se_search_text call.
VARIABLES
  query,       \* the tokens of the normalized query text
  top_k,       \* the top_k argument
  max_hits,    \* se_search_text: the max_hits argument
  sPc,         \* position inside the call
  q_hashes,    \* sorted distinct shingle hashes of the query
  qterms,      \* the query terms kept: sequence of [h, df, L, R]
  seeds,       \* the seed terms, rarest first
  sum_df,      \* se_search_text: sum_df after the budget loop
  cand,        \* candidate documents: sequence of [did, hits], ascending did
  inter,       \* inter[i]: terms whose posting list holds cand[i]
  q_used,      \* the query size the scores are computed against
  out          \* the hits returned, best first

searchVars ==
  <<query, top_k, max_hits, sPc, q_hashes, qterms, seeds, sum_df, cand, inter,
    q_used, out>>

\* State of the multi-index search: the engine cache shared by all calls of
\* seg_search_many_json and the calls in progress.
VARIABLES
  cache_max,   \* SEG_CACHE_MAX as env_int returns it
  retry_ms,    \* SEG_LOAD_RETRY_MS as env_int returns it
  now,         \* now_ms()
  repaired,    \* whether the broken directory has been rebuilt on disk
  entries,     \* the CacheEntry objects ever created, by id
  g_map,       \* directory -> id of its CacheEntry (0: not in the map)
  g_lru,       \* the nodes of the LRU list, most recently used first: the key,
               \* the entry whose lru_it was set to the node when it was pushed
               \* (owner), and whether that lru_it still points to it (cur)
  ms,          \* caller -> the state of its seg_search_many_json call
  calls,       \* number of calls started so far
  recency,     \* history: the directories of the map, the most recently created
               \* or touched first
  ensured      \* history of ensure_loaded_with_retry: per dir the time of its last
               \* failed load (fails, -1: none), and for the last call whether the
               \* dir had failed before, whether retry_ms had passed since (due),
               \* and whether the call tried a load

msVars ==
  <<cache_max, retry_ms, now, repaired, entries, g_map, g_lru, ms, calls,
    recency, ensured>>

\* One text through the pipeline: normalized once, then shingled by the
\* builder (spans) and by se_search_text (token strings).
VARIABLES
  tx_text,        \* the input text, UTF-8 bytes
  tPc,         \* "idle", "raw" (not normalized yet) or "norm"
  tx_norm,        \* normalize_for_shingles_simple(tx_text)
  txDone,      \* which of the two shinglers have run: "spans", "tokens"
  tx_spans,       \* tokenize_spans(tx_norm)
  tx_span_hashes, \* build_shingles_spans(tx_norm, tx_spans, K)
  tx_toks,        \* simple_tokens(tx_norm)
  tx_tok_hashes   \* build_shingles(tx_toks, K)

textVars ==
  <<tx_text, tPc, tx_norm, txDone, tx_spans, tx_span_hashes, tx_toks,
    tx_tok_hashes>>

\* Query threads on one loaded engine: the call each thread is in and the
\* thread_local scratch buffers (TLSBufs g_tls / TLS g_tls) it reuses.
VARIABLES
  th,          \* thread -> the frame of its search_text / se_search_text call
  tls          \* scratch id -> the buffers, as the last query left them

scratchVars == <<th, tls>>

NoFile ==
  [version |-> 0, N_docs |-> 0, docs_meta |-> <<>>, doc_ids |-> <<>>,
   uniq |-> <<>>, off |-> <<>>, did |-> <<>>, build |-> "none"]

\* An index and sidecar published by an earlier build.
PrevIndex ==
  [version |-> 2, N_docs |-> 1, docs_meta |-> <<2>>, doc_ids |-> <<>>,
   uniq |-> <<7>>, off |-> <<0, 1>>, did |-> <<0>>, build |-> "prev"]

PrevDocids == [ids |-> <<100>>, build |-> "prev"]

NoCsr == [uniq |-> <<>>, off |-> <<>>, did |-> <<>>]

Workers == 0..(numWorkers - 1)

\* level5 has one shared queue, v3 one queue per worker
QOf(t) == IF variant = "level5" THEN 0 ELSE t

QueueCap == IF variant = "level5" THEN QUEUE_MAX_BATCH ELSE QUEUE_MAX_LINES

RunCap == IF variant = "level5" THEN RUN_MAX_PAIRS ELSE RUN_MAX_POSTINGS

\* exit status of a build that dies on an exception: level5 has no handler
\* (std::terminate, SIGABRT), v3 catches it in main and returns 2
ThrowExit == IF variant = "level5" THEN 134 ELSE 2

Corpora ==
  UNION {[1..n -> DocSet] : n \in 1..MaxLines}

InitWorker ==
  [pc |-> "run", doc_ids |-> <<>>, docs_meta |-> <<>>, run_recs |-> <<>>,
   runs |-> <<>>, docs_ok |-> 0, docs_bad |-> 0, pairs_emitted |-> 0]

\* level5 main: std::max(8, env_int("PLAGIO_MERGE_MAX_WAY", 64))
env_merge_max_way(env) == Max(MIN_MERGE_WAY, env)

InitBuildWay(cs, envs) ==
  /\ variant \in {"level5", "v3"}
  /\ merge_max_way \in {env_merge_max_way(e) : e \in envs}
  /\ corpus \in cs
  /\ numWorkers \in 1..MaxWorkers
  /\ rdPos = 0
  /\ rr = 0
  /\ queues = [q \in 0..(MaxWorkers - 1) |-> <<>>]
  /\ closed = [q \in 0..(MaxWorkers - 1) |-> FALSE]
  /\ wk = [t \in 0..(MaxWorkers - 1) |-> InitWorker]
  /\ phase = "ingest"
  /\ bases = <<>>
  /\ runs = <<>>
  /\ pass = 0
  /\ all_ids = <<>>
  /\ all_meta = <<>>
  /\ csr = NoCsr
  /\ tmpBin = NoFile
  /\ fsBin = PrevIndex
  /\ fsDocids = PrevDocids
  /\ exitCode = -1

InitBuildOn(cs) == InitBuildWay(cs, {MERGE_MAX_WAY})

InitBuild == InitBuildOn(Corpora)

(***************************************************************************)
(* Workers                                                                  *)
(***************************************************************************)
\* level5 write_run_file sorts and drops duplicate records
write_run_file(recs) == UniqueAdj(SortRecs(recs))

\* v3 spill_run only sorts
spill_run(recs) == SortRecs(recs)

\* Variant of the flush that empties the buffer without writing a run file.
Flush_NoWrite(w) == [w EXCEPT !.run_recs = <<>>]

\* flush_run_softcap / spill_run: nothing is written for an empty buffer
Flush(w) ==
  IF w.run_recs = <<>> THEN w
  ELSE [w EXCEPT !.runs = Append(@, IF variant = "level5"
                                    THEN write_run_file(w.run_recs)
                                    ELSE spill_run(w.run_recs)),
                 !.run_recs = <<>>]

\* process_batch / worker_thread: the body of the loop for one line
ProcessLine(w, line) ==
  LET toks0 == corpus[line]
      toks == CapTokens(toks0)
      bad == [w EXCEPT !.docs_bad = IF variant = "level5" THEN @ + 1 ELSE @]
  IN IF toks0 = <<>> THEN bad
     ELSE IF Len(toks) < K THEN bad
     ELSE LET ldoc == u32(Len(w.doc_ids))
              hs == DocHashes(toks)
              w1 == [w EXCEPT !.doc_ids = Append(@, line),
                              !.docs_meta = Append(@, Len(toks)),
                              !.docs_ok = @ + 1,
                              !.run_recs = @ \o [i \in 1..Len(hs) |-> <<hs[i], ldoc>>],
                              !.pairs_emitted = @ + Len(hs)]
          IN IF Len(w1.run_recs) >= RunCap THEN Flush(w1) ELSE w1

RECURSIVE ProcessLines(_, _)
ProcessLines(w, lines) ==
  IF lines = <<>> THEN w
  ELSE ProcessLines(ProcessLine(w, Head(lines)), Tail(lines))

\* BoundedQueue::push waits on cv_push_ for this predicate
push_ready_Unbounded(q) == TRUE

push_ready(q) == Len(queues[q]) < QueueCap \/ closed[q]

\* BoundedQueue::pop waits on cv_pop_ for this predicate
pop_ready_NoClose(q) == queues[q] # <<>>

pop_ready(q) == queues[q] # <<>> \/ closed[q]

\* q.pop(b) succeeded: the worker processes the item
WorkerPop(t) ==
  /\ phase = "ingest"
  /\ t \in Workers
  /\ wk[t].pc = "run"
  /\ pop_ready(QOf(t))
  /\ queues[QOf(t)] # <<>>
  /\ wk' = [wk EXCEPT ![t] = ProcessLines(@, Head(queues[QOf(t)]))]
  /\ queues' = [queues EXCEPT ![QOf(t)] = Tail(@)]
  /\ UNCHANGED <<variant, merge_max_way, corpus, numWorkers, rdPos, rr, closed, phase, bases,
                 runs, pass, all_ids, all_meta, csr, tmpBin, fsBin, fsDocids,
                 exitCode>>
  /\ UNCHANGED <<serveVars, searchVars, msVars, textVars, scratchVars>>

\* q.pop(b) returned false (closed and empty): final flush, thread ends
WorkerExit(t) ==
  /\ phase = "ingest"
  /\ t \in Workers
  /\ wk[t].pc = "run"
  /\ pop_ready(QOf(t))
  /\ queues[QOf(t)] = <<>>
  /\ wk' = [wk EXCEPT ![t] = [Flush(@) EXCEPT !.pc = "done"]]
  /\ UNCHANGED <<variant, merge_max_way, corpus, numWorkers, rdPos, rr, queues, closed, phase,
                 bases, runs, pass, all_ids, all_meta, csr, tmpBin, fsBin,
                 fsDocids, exitCode>>
  /\ UNCHANGED <<serveVars, searchVars, msVars, textVars, scratchVars>>

(***************************************************************************)
(* Reader (main thread while phase = "ingest")                              *)
(***************************************************************************)
\* level5: the next LINES_BATCH lines (or the rest) are pushed as one batch;
\* v3: the next line goes to queue rr. push blocks while the queue is full.
ReaderPush ==
  /\ phase = "ingest"
  /\ rdPos < Len(corpus)
  /\ LET q == IF variant = "level5" THEN 0 ELSE rr
         n == IF variant = "level5" THEN Min(LINES_BATCH, Len(corpus) - rdPos) ELSE 1
     IN /\ push_ready(q)
        /\ ~closed[q]
        /\ queues' = [queues EXCEPT ![q] = Append(@, [i \in 1..n |-> rdPos + i])]
        /\ rdPos' = rdPos + n
        /\ rr' = IF variant = "level5" THEN rr ELSE (rr + 1) % numWorkers
  /\ UNCHANGED <<variant, merge_max_way, corpus, numWorkers, closed, wk, phase, bases, runs,
                 pass, all_ids, all_meta, csr, tmpBin, fsBin, fsDocids, exitCode>>
  /\ UNCHANGED <<serveVars, searchVars, msVars, textVars, scratchVars>>

\* q.close() after the last push
ReaderClose ==
  /\ phase = "ingest"
  /\ rdPos = Len(corpus)
  /\ \E q \in 0..(MaxWorkers - 1) : ~closed[q]
  /\ closed' = [q \in 0..(MaxWorkers - 1) |-> TRUE]
  /\ UNCHANGED <<variant, merge_max_way, corpus, numWorkers, rdPos, rr, queues, wk, phase,
                 bases, runs, pass, all_ids, all_meta, csr, tmpBin, fsBin,
                 fsDocids, exitCode>>
  /\ UNCHANGED <<serveVars, searchVars, msVars, textVars, scratchVars>>

(***************************************************************************)
(* Main thread after the join                                               *)
(***************************************************************************)
\* Variant in which every worker's documents start at global id 0.
RECURSIVE PrefixBases_NoOffsets(_, _)
PrefixBases_NoOffsets(t, acc) ==
  IF t >= numWorkers THEN <<>> ELSE <<0>> \o PrefixBases_NoOffsets(t + 1, acc)

\* prefix sums of the per-worker doc counts, indexed by tid + 1, each stored
\* in a std::uint32_t
RECURSIVE PrefixBases(_, _)
PrefixBases(t, acc) ==
  IF t >= numWorkers THEN <<>>
  ELSE <<u32(acc)>> \o PrefixBases(t + 1, acc + Len(wk[t].doc_ids))

\* the number of documents of all workers
RECURSIVE TotalDocs(_)
TotalDocs(t) == IF t >= numWorkers THEN 0 ELSE Len(wk[t].doc_ids) + TotalDocs(t + 1)

\* v3 only: if (acc > numeric_limits<uint32_t>::max()) throw
BasesThrow == variant = "v3" /\ TotalDocs(0) > U32_MAX

WorkerRuns(t) ==
  [i \in 1..Len(wk[t].runs) |->
     [kind |-> 1, tid |-> t, base |-> PrefixBases(0, 0)[t + 1], recs |-> wk[t].runs[i]]]

\* join, global doc bases, concatenation in worker order, collection of runs
MainJoin ==
  /\ phase = "ingest"
  /\ \A t \in Workers : wk[t].pc = "done"
  /\ IF BasesThrow
     THEN /\ phase' = "exited"
          /\ exitCode' = ThrowExit
          /\ UNCHANGED <<bases, all_ids, all_meta, runs>>
     ELSE /\ bases' = PrefixBases(0, 0)
          /\ all_ids' = Concat([i \in 1..numWorkers |-> wk[i - 1].doc_ids])
          /\ all_meta' = Concat([i \in 1..numWorkers |-> wk[i - 1].docs_meta])
          /\ runs' = Concat([i \in 1..numWorkers |-> WorkerRuns(i - 1)])
          /\ IF all_ids' = <<>> \/ runs' = <<>>
             THEN phase' = "exited" /\ exitCode' = 1
             ELSE phase' = "reduce" /\ exitCode' = exitCode
  /\ UNCHANGED <<variant, merge_max_way, corpus, numWorkers, rdPos, rr, queues, closed, wk,
                 pass, csr, tmpBin, fsBin, fsDocids>>
  /\ UNCHANGED <<serveVars, searchVars, msVars, textVars, scratchVars>>

\* reduce_runs_multipass: if (max_way < 8) max_way = 8
clamp_max_way(w) == IF w < MIN_MERGE_WAY THEN MIN_MERGE_WAY ELSE w

Fanin == IF variant = "level5" THEN clamp_max_way(merge_max_way) ELSE MERGE_FANIN

\* one pass of reduce_runs_multipass / reduce_runs_batched
ReducePass ==
  /\ phase = "reduce"
  /\ Len(runs) > Fanin
  /\ LET groups == Chunks(runs, Fanin)
     IN IF variant = "level5"
        THEN /\ runs' = [g \in 1..Len(groups) |->
                           merge_runs_to_global_run(groups[g], bases)]
             /\ pass' = pass + 1
             /\ UNCHANGED <<phase, exitCode>>
        ELSE \E tb \in {"lo", "hi"} :
               IF \A i \in 1..Len(runs) : advance_checked_ok(runs[i])
               THEN /\ runs' = [g \in 1..Len(groups) |->
                                  merge_runs_into_run(groups[g], tb)]
                    /\ pass' = pass + 1
                    /\ UNCHANGED <<phase, exitCode>>
               ELSE /\ phase' = "exited"
                    /\ exitCode' = ThrowExit
                    /\ UNCHANGED <<runs, pass>>
  /\ UNCHANGED <<variant, merge_max_way, corpus, numWorkers, rdPos, rr, queues, closed, wk,
                 bases, all_ids, all_meta, csr, tmpBin, fsBin, fsDocids>>
  /\ UNCHANGED <<serveVars, searchVars, msVars, textVars, scratchVars>>

\* v3 main: all_run_bases.assign(all_runs.size(), 0) after reduce_runs_batched
ZeroBases(rs) == [i \in 1..Len(rs) |-> [rs[i] EXCEPT !.base = 0]]

\* the final merge of the live runs into the CSR tmp files
FinalMerge ==
  /\ phase = "reduce"
  /\ Len(runs) <= Fanin
  /\ IF variant = "level5"
     THEN /\ csr' = merge_runs_to_csr(runs, bases)
          /\ phase' = "csr"
          /\ UNCHANGED exitCode
     ELSE \E tb \in {"lo", "hi"} :
            IF \A i \in 1..Len(runs) : advance_checked_ok(runs[i])
            THEN /\ csr' = merge_runs_to_temp_csr(ZeroBases(runs), tb)
                 /\ phase' = "csr"
                 /\ UNCHANGED exitCode
            ELSE /\ phase' = "exited"
                 /\ exitCode' = ThrowExit
                 /\ UNCHANGED csr
  /\ UNCHANGED <<variant, merge_max_way, corpus, numWorkers, rdPos, rr, queues, closed, wk,
                 bases, runs, pass, all_ids, all_meta, tmpBin, fsBin, fsDocids>>
  /\ UNCHANGED <<serveVars, searchVars, msVars, textVars, scratchVars>>

\* header + docs_meta (+ v3: doc id blob) + uniq + off + did into the tmp file
WriteTmp ==
  /\ phase = "csr"
  /\ tmpBin' = [version |-> IF variant = "level5" THEN 2 ELSE 3,
                N_docs |-> Len(all_ids),
                docs_meta |-> all_meta,
                doc_ids |-> IF variant = "level5" THEN <<>> ELSE all_ids,
                uniq |-> csr.uniq, off |-> csr.off, did |-> csr.did,
                build |-> "new"]
  /\ phase' = "tmp"
  /\ UNCHANGED <<variant, merge_max_way, corpus, numWorkers, rdPos, rr, queues, closed, wk,
                 bases, runs, pass, all_ids, all_meta, csr, fsBin, fsDocids,
                 exitCode>>
  /\ UNCHANGED <<serveVars, searchVars, msVars, textVars, scratchVars>>

\* atomic_replace / atomic_replace_file, first half: fs::remove(final)
ReplaceRemove ==
  /\ phase = "tmp"
  /\ fsBin' = NoFile
  /\ phase' = "removed"
  /\ UNCHANGED <<variant, merge_max_way, corpus, numWorkers, rdPos, rr, queues, closed, wk,
                 bases, runs, pass, all_ids, all_meta, csr, tmpBin, fsDocids,
                 exitCode>>
  /\ UNCHANGED <<serveVars, searchVars, msVars, textVars, scratchVars>>

\* second half: fs::rename(tmp, final); a failed rename throws
ReplaceRename ==
  /\ phase = "removed"
  /\ \E ok \in BOOLEAN :
       IF ok
       THEN /\ fsBin' = tmpBin
            /\ phase' = IF variant = "level5" THEN "bin" ELSE "published"
            /\ UNCHANGED exitCode
       ELSE /\ phase' = "exited"
            /\ exitCode' = ThrowExit
            /\ UNCHANGED fsBin
  /\ UNCHANGED <<variant, merge_max_way, corpus, numWorkers, rdPos, rr, queues, closed, wk,
                 bases, runs, pass, all_ids, all_meta, csr, tmpBin, fsDocids>>
  /\ UNCHANGED <<serveVars, searchVars, msVars, textVars, scratchVars>>

\* level5: the doc id sidecar is written to a tmp file and replaced the same
\* way: remove, then rename (which may throw)
DocidsRemove ==
  /\ phase = "bin"
  /\ fsDocids' = [ids |-> <<>>, build |-> "none"]
  /\ phase' = "ids_removed"
  /\ UNCHANGED <<variant, merge_max_way, corpus, numWorkers, rdPos, rr, queues, closed, wk,
                 bases, runs, pass, all_ids, all_meta, csr, tmpBin, fsBin,
                 exitCode>>
  /\ UNCHANGED <<serveVars, searchVars, msVars, textVars, scratchVars>>

DocidsRename ==
  /\ phase = "ids_removed"
  /\ \E ok \in BOOLEAN :
       IF ok
       THEN /\ fsDocids' = [ids |-> all_ids, build |-> "new"]
            /\ phase' = "published"
            /\ UNCHANGED exitCode
       ELSE /\ phase' = "exited"
            /\ exitCode' = ThrowExit
            /\ UNCHANGED fsDocids
  /\ UNCHANGED <<variant, merge_max_way, corpus, numWorkers, rdPos, rr, queues, closed, wk,
                 bases, runs, pass, all_ids, all_meta, csr, tmpBin, fsBin>>
  /\ UNCHANGED <<serveVars, searchVars, msVars, textVars, scratchVars>>

\* meta json (level5), cleanup of tmp and run files, return 0
Finish ==
  /\ phase = "published"
  /\ phase' = "exited"
  /\ exitCode' = 0
  /\ UNCHANGED <<variant, merge_max_way, corpus, numWorkers, rdPos, rr, queues, closed, wk,
                 bases, runs, pass, all_ids, all_meta, csr, tmpBin, fsBin,
                 fsDocids>>
  /\ UNCHANGED <<serveVars, searchVars, msVars, textVars, scratchVars>>

\* An I/O error while run, tmp or output files are opened, read or written:
\* the throwing paths of RunReader, write_all, read_all, append_file_to, and
\* the "cannot open ... for write" returns of level5
BuildIOFail ==
  /\ phase \in {"reduce", "csr"}
  /\ phase' = "exited"
  /\ exitCode' \in {1, ThrowExit}
  /\ UNCHANGED <<variant, merge_max_way, corpus, numWorkers, rdPos, rr, queues, closed, wk,
                 bases, runs, pass, all_ids, all_meta, csr, tmpBin, fsBin,
                 fsDocids>>
  /\ UNCHANGED <<serveVars, searchVars, msVars, textVars, scratchVars>>

NextBuild ==
  \/ \E t \in 0..(MaxWorkers - 1) : WorkerPop(t)
  \/ \E t \in 0..(MaxWorkers - 1) : WorkerExit(t)
  \/ ReaderPush
  \/ ReaderClose
  \/ MainJoin
  \/ ReducePass
  \/ FinalMerge
  \/ WriteTmp
  \/ ReplaceRemove
  \/ ReplaceRename
  \/ DocidsRemove
  \/ DocidsRename
  \/ Finish
  \/ BuildIOFail

(***************************************************************************)
(* Index files as the loaders see them                                      *)
(*                                                                         *)
(* A file is [magic, version, N_docs, docs_meta, uniq, off, did, post, cut]:*)
(* the header counts are the lengths of the sections that follow the       *)
(* header (uniq9_cnt = Len(uniq), did9_cnt = Len(did), off has one entry    *)
(* more than uniq), post is the posting list of a version 1 file, and cut   *)
(* is the number of bytes missing at the end of the file.                   *)
(***************************************************************************)
HDR_BYTES == 44
META_BYTES == 20
V1_HDR_BYTES == 28
POST_BYTES == 12
VALIDATE_WIN == 2
VALIDATE_MAXLEN_MIN == 2

\* bytes of a whole version 2 file with the header counts of f
FileBytes(f) ==
  HDR_BYTES + f.N_docs * META_BYTES + Len(f.uniq) * 8 + Len(f.off) * 8
  + Len(f.did) * 4

\* bytes of a whole version 1 file
FileBytesV1(f) == V1_HDR_BYTES + f.N_docs * META_BYTES + Len(f.post) * POST_BYTES

\* st.st_size
FileSize(f) == (IF f.version = 1 THEN FileBytesV1(f) ELSE FileBytes(f)) - f.cut

\* every need() of load_v2_mmap succeeds iff the file has all its bytes
NeedOk(f) == FileSize(f) >= FileBytes(f)

\* check_window of validate_csr_basic: did[start .. min(D, start+len)) < N
check_window(did, N, start, len) ==
  \A i \in start..(Min(Len(did), start + len) - 1) : did[i + 1] < N

\* SearchEngine::validate_csr_basic; pos is the position the sampler draws
validate_csr_basic(x, N, U, D, samples, pos) ==
  /\ N # 0 /\ U # 0
  /\ x.off[1] = 0
  /\ x.off[U + 1] = D
  /\ \A i \in 1..U : x.off[i] <= x.off[i + 1] /\ x.off[i + 1] <= D
  /\ D > 0 =>
       /\ check_window(x.did, N, 0, VALIDATE_WIN)
       /\ D > VALIDATE_WIN =>
            LET mid == D \div 2
                s1 == IF mid > VALIDATE_WIN \div 2
                      THEN mid - VALIDATE_WIN \div 2 ELSE 0
                s2 == D - VALIDATE_WIN
            IN /\ check_window(x.did, N, s1, VALIDATE_WIN)
               /\ check_window(x.did, N, s2, VALIDATE_WIN)
       /\ (samples > 0 /\ D > 1) => x.did[(pos % D) + 1] < N

\* check_win of validate_uniq_sorted_sample
check_win(uniq, start) ==
  LET end == Min(Len(uniq), start + VALIDATE_WIN)
  IN (start < Len(uniq) /\ end > start + 1) =>
       \A i \in (start + 1)..(end - 1) : uniq[i + 1] > uniq[i]

\* SearchEngine::validate_uniq_sorted_sample; k is the index the sampler draws
validate_uniq_sorted_sample(x, samples, k) ==
  LET U == Len(x.uniq)
  IN /\ U # 0
     /\ samples > 0 =>
          /\ check_win(x.uniq, 0)
          /\ U > VALIDATE_WIN =>
               /\ check_win(x.uniq, U \div 2)
               /\ check_win(x.uniq, U - VALIDATE_WIN)
          /\ U > 1 =>
               LET kk == 1 + (k % (U - 1))
               IN x.uniq[kk + 1] > x.uniq[kk]

\* SearchEngine::validate_postings_sorted_sample; i is the row the sampler draws
validate_postings_sorted_sample(x, N, S, maxlen, i) ==
  /\ N # 0
  /\ Len(x.uniq) # 0
  /\ S > 0 =>
       LET r == (i % Len(x.uniq)) + 1
           L == x.off[r]
           R == x.off[r + 1]
           len == R - L
           check_len == Min(len, maxlen)
       IN /\ L <= R /\ R <= Len(x.did)
          /\ len > 1 =>
               /\ x.did[L + 1] < N
               /\ \A k \in 1..(check_len - 1) :
                    /\ x.did[L + k + 1] < N
                    /\ x.did[L + k + 1] > x.did[L + k]

\* search_core.cpp validate_v2_csr, N = idx.docs.size()
validate_v2_csr(x, N) ==
  LET U == Len(x.uniq)
      D == Len(x.did)
  IN /\ U # 0
     /\ x.off[1] = 0
     /\ x.off[U + 1] = D
     /\ \A i \in 1..U :
          /\ x.off[i] <= x.off[i + 1]
          /\ (i + 1 <= U) => x.uniq[i] <= x.uniq[i + 1]
     /\ \A i \in 1..D : x.did[i] < N

(***************************************************************************)
(* index_config.json                                                        *)
(***************************************************************************)
MAX_Q_UNIQ9_MIN == 2
HARD_SUM_DF_MIN == 4
FETCH_PER_K_HARD_MAX == 3
MAX_CANDS_DOC_HARD_MAX == 3
MAX_Q_UNIQ9_HARD_MAX == 3
MAX_SUM_DF_HARD_MAX == 8

\* the values of struct IndexConfig / struct Config when the file is absent
DefaultCfg ==
  [w_min_doc |-> 2, w_min_query |-> 2, alpha |-> 60, w9 |-> 90,
   fetch_per_k |-> 2, max_cands_doc |-> 3, max_df_for_seed |-> 3,
   max_q_uniq9 |-> 3, max_sum_df_seeds |-> 6, hard_max_sum_df_seeds |-> 8,
   validate_postings_samples |-> 1, validate_postings_maxlen |-> 3,
   validate_did_samples |-> 1, validate_uniq_samples |-> 1]

\* clamp01 on a weight kept in hundredths
clamp01(x) == IF x < 0 THEN 0 ELSE IF x > 100 THEN 100 ELSE x

\* SearchEngine::load_config_from_json applied to the values j of the file
load_config_SearchEngine(j) ==
  [j EXCEPT
     !.w_min_doc = Max(@, 1),
     !.w_min_query = Max(@, 1),
     !.fetch_per_k = Max(@, 1),
     !.max_cands_doc = Max(@, 1),
     !.max_df_for_seed = Max(@, 1),
     !.max_q_uniq9 = Max(@, MAX_Q_UNIQ9_MIN),
     !.hard_max_sum_df_seeds = Max(@, HARD_SUM_DF_MIN),
     !.validate_postings_samples = Max(@, 0),
     !.validate_postings_maxlen = Max(@, VALIDATE_MAXLEN_MIN),
     !.validate_did_samples = Max(@, 0),
     !.validate_uniq_samples = Max(@, 0),
     !.alpha = clamp01(@),
     !.w9 = clamp01(@)]

\* search_core.cpp load_config_from_json; its Config has no validation knobs
\* and no hard_max_sum_df_seeds, which keep their defaults here
load_config_se(j) ==
  [j EXCEPT
     !.alpha = clamp01(@),
     !.w9 = clamp01(@),
     !.fetch_per_k = Min(Max(@, 1), FETCH_PER_K_HARD_MAX),
     !.max_cands_doc = Min(Max(@, 1), MAX_CANDS_DOC_HARD_MAX),
     !.max_df_for_seed = Max(@, 1),
     !.max_q_uniq9 = Min(Max(@, 1), MAX_Q_UNIQ9_HARD_MAX),
     !.max_sum_df_seeds = Min(@, MAX_SUM_DF_HARD_MAX),
     !.hard_max_sum_df_seeds = DefaultCfg.hard_max_sum_df_seeds,
     !.validate_postings_samples = DefaultCfg.validate_postings_samples,
     !.validate_postings_maxlen = DefaultCfg.validate_postings_maxlen,
     !.validate_did_samples = DefaultCfg.validate_did_samples,
     !.validate_uniq_samples = DefaultCfg.validate_uniq_samples]

load_config_from_json(e, j) ==
  IF e = "SearchEngine" THEN load_config_SearchEngine(j) ELSE load_config_se(j)

(***************************************************************************)
(* The directories a load is run on                                         *)
(***************************************************************************)
\* two well-formed version 2 files and one version 1 file
BaseA ==
  [magic |-> "PLAG", version |-> 2, N_docs |-> 2, docs_meta |-> <<3, 4>>,
   uniq |-> <<3, 5>>, off |-> <<0, 2, 3>>, did |-> <<0, 1, 1>>,
   post |-> <<>>, cut |-> 0]

BaseB ==
  [magic |-> "PLAG", version |-> 2, N_docs |-> 3, docs_meta |-> <<3, 4, 5>>,
   uniq |-> <<2, 4, 6>>, off |-> <<0, 1, 4, 7>>, did |-> <<1, 0, 1, 2, 0, 1, 2>>,
   post |-> <<>>, cut |-> 0]

BaseV1 ==
  [magic |-> "PLAG", version |-> 1, N_docs |-> 2, docs_meta |-> <<3, 4>>,
   uniq |-> <<>>, off |-> <<>>, did |-> <<>>,
   post |-> << <<5, 1>>, <<3, 0>>, <<3, 1>> >>, cut |-> 0]

\* b itself and every file that differs from b in one place
OneChange(b) ==
  {b}
  \cup {[b EXCEPT !.magic = "PLAX"], [b EXCEPT !.version = 3],
        [b EXCEPT !.cut = 1], [b EXCEPT !.cut = FileBytes(b)]}
  \cup {[b EXCEPT !.did[p] = v] : p \in DOMAIN b.did, v \in 0..b.N_docs}
  \cup {[b EXCEPT !.uniq[i] = v] : i \in DOMAIN b.uniq, v \in Range(b.uniq)}
  \cup {[b EXCEPT !.off[i] = v] : i \in DOMAIN b.off, v \in 0..Len(b.did)}

OneChangeV1(b) ==
  {b, [b EXCEPT !.cut = 1], [b EXCEPT !.magic = "PLAX"]}
  \cup {[b EXCEPT !.post[p] = <<b.post[p][1], v>>] :
          p \in DOMAIN b.post, v \in 0..b.N_docs}

BinFiles == OneChange(BaseA) \cup OneChange(BaseB) \cup OneChangeV1(BaseV1)

\* the sidecar: unreadable or not a JSON array, or an array of n strings
MaxSidecar == 4
Sidecars ==
  {[ok |-> FALSE, ids |-> <<>>]}
  \cup {[ok |-> TRUE, ids |-> [i \in 1..n |-> 100 + i]] : n \in 0..MaxSidecar}

\* the validation knobs of index_config.json
LoadCfgs ==
  {[DefaultCfg EXCEPT !.validate_postings_samples = a,
                      !.validate_postings_maxlen = b,
                      !.validate_did_samples = c,
                      !.validate_uniq_samples = d] :
     a \in {-1, 1}, b \in {0, 3}, c \in {0, 1}, d \in {0, 1}}

(***************************************************************************)
(* Loading: SearchEngine::load and se_load_index                            *)
(***************************************************************************)
V1_POSTINGS_MAX == 8

\* what std::uniform_int_distribution(0, n - 1) can return
Draws(n) == 0..(Max(n, 1) - 1)

\* SearchEngine::load_v2_mmap returns true; pos, k, i are what the three
\* samplers draw (std::mt19937_64 seeded from the header counts)
load_v2_mmap_SearchEngine(f, c, pos, k, i) ==
  /\ FileSize(f) >= HDR_BYTES
  /\ f.magic = "PLAG"
  /\ f.version = 2
  /\ f.N_docs # 0 /\ Len(f.uniq) # 0
  /\ NeedOk(f)
  /\ validate_csr_basic(f, f.N_docs, Len(f.uniq), Len(f.did),
                        c.validate_did_samples, pos)
  /\ validate_uniq_sorted_sample(f, c.validate_uniq_samples, k)
  /\ validate_postings_sorted_sample(f, f.N_docs, c.validate_postings_samples,
                                     c.validate_postings_maxlen, i)

\* search_core.cpp load_v2_mmap returns true
load_v2_mmap_se(f) ==
  /\ FileSize(f) >= HDR_BYTES
  /\ f.magic = "PLAG" /\ f.version = 2
  /\ NeedOk(f)
  /\ validate_v2_csr(f, f.N_docs)

\* the CSR both load_v1_build_csr build from the sorted posting list
RECURSIVE GroupV1(_, _, _)
GroupV1(recs, i, st) ==
  IF i > Len(recs)
  THEN [uniq |-> st.uniq, off |-> Append(st.off, Len(st.did)), did |-> st.did]
  ELSE LET p == recs[i]
           new == st.uniq = <<>> \/ st.uniq[Len(st.uniq)] # p[1]
       IN GroupV1(recs, i + 1,
                  [uniq |-> IF new THEN Append(st.uniq, p[1]) ELSE st.uniq,
                   off |-> IF new THEN Append(st.off, Len(st.did)) ELSE st.off,
                   did |-> Append(st.did, p[2])])

BuildCsrV1(f) == GroupV1(SortRecs(f.post), 1, NoCsr)

\* the version 1 fallback returns true
load_v1_build_csr(e, f, c, pos, k) ==
  /\ FileSize(f) >= 8
  /\ f.magic = "PLAG"
  /\ f.version = 1
  /\ f.cut = 0
  /\ IF e = "SearchEngine"
     THEN /\ f.N_docs # 0
          /\ validate_csr_basic(BuildCsrV1(f), f.N_docs, Len(BuildCsrV1(f).uniq),
                                Len(BuildCsrV1(f).did), c.validate_did_samples, pos)
          /\ validate_uniq_sorted_sample(BuildCsrV1(f), c.validate_uniq_samples, k)
     ELSE Len(f.post) <= V1_POSTINGS_MAX

NoIndexFile ==
  [magic |-> "none", version |-> 0, N_docs |-> 0, docs_meta |-> <<>>,
   uniq |-> <<>>, off |-> <<>>, did |-> <<>>, post |-> <<>>, cut |-> 0]

NoSidecar == [ok |-> FALSE, ids |-> <<>>]

\* a default-constructed Index / a SearchEngine after reset_all
EmptyObj ==
  [file |-> NoIndexFile, cfg |-> DefaultCfg, N_docs |-> 0, doc_ids |-> <<>>,
   docs |-> <<>>, uniq |-> <<>>, off |-> <<>>, did |-> <<>>, version |-> 0,
   loaded |-> FALSE, refs |-> 0, alive |-> TRUE]

\* the object a successful load of file f leaves, ids being the sidecar
Filled(o, f, ids) ==
  LET x == IF f.version = 1 THEN BuildCsrV1(f) ELSE f
  IN [o EXCEPT !.file = f, !.N_docs = f.N_docs, !.docs = f.docs_meta,
               !.uniq = x.uniq, !.off = x.off, !.did = x.did,
               !.version = f.version,
               !.doc_ids = IF Len(ids) > f.N_docs
                           THEN SubSeq(ids, 1, f.N_docs) ELSE ids,
               !.loaded = TRUE]

\* Variant of acquire in which the reader keeps a plain pointer and the
\* use count is not raised.
acquire_NoRef(os, id) == os

\* a shared_ptr to object id is copied / destroyed; the last owner runs
\* ~Index, which unmaps the file
acquire(os, id) ==
  IF id = 0 THEN os ELSE [os EXCEPT ![id].refs = @ + 1]

release(os, id) ==
  IF id = 0 THEN os
  ELSE [os EXCEPT ![id].refs = @ - 1, ![id].alive = os[id].refs > 1]

\* the index a search would use: the loaded engine, or what g_index points to
Installed ==
  IF engine = "SearchEngine"
  THEN (IF objs[1].loaded THEN objs[1] ELSE EmptyObj)
  ELSE (IF g_index = 0 THEN EmptyObj ELSE objs[g_index])

\* entry of load: reset_all and the config (SearchEngine), make_shared and the
\* config (se_load_index)
LoadStart ==
  /\ ldPc \in {"idle", "done"}
  /\ pending # <<>>
  /\ pending' = Tail(pending)
  /\ dirBin' = Head(pending).bin
  /\ dirDocids' = Head(pending).docids
  /\ dirCfg' = Head(pending).cfg
  /\ LET o == [EmptyObj EXCEPT
                 !.cfg = load_config_from_json(engine, Head(pending).cfg),
                 !.refs = 1]
     IN IF engine = "SearchEngine"
        THEN objs' = [objs EXCEPT ![1] = o] /\ cur' = 1
        ELSE objs' = Append(objs, o) /\ cur' = Len(objs) + 1
  /\ ldPc' = "docids"
  /\ ldRet' = "none"
  /\ UNCHANGED <<engine, g_index, rd>>
  /\ UNCHANGED <<buildVars, searchVars, msVars, textVars, scratchVars>>

\* load_docids_json / the docids block of se_load_index
LoadDocids ==
  /\ ldPc = "docids"
  /\ IF dirDocids.ok
     THEN /\ objs' = [objs EXCEPT ![cur].doc_ids = dirDocids.ids]
          /\ ldPc' = "v2"
          /\ UNCHANGED <<ldRet, cur>>
     ELSE /\ objs' = IF engine = "se" THEN release(objs, cur) ELSE objs
          /\ ldPc' = "done"
          /\ ldRet' = "fail"
          /\ cur' = 0
  /\ UNCHANGED <<engine, pending, dirBin, dirDocids, dirCfg, g_index, rd>>
  /\ UNCHANGED <<buildVars, searchVars, msVars, textVars, scratchVars>>

\* the object is complete: loaded_ = true (SearchEngine), g_index.store and
\* the end of the local shared_ptr (se_load_index)
Install ==
  /\ objs' = IF engine = "se"
             THEN release([objs EXCEPT ![cur] = Filled(@, dirBin, @.doc_ids)],
                          g_index)
             ELSE [objs EXCEPT ![cur] = Filled(@, dirBin, @.doc_ids)]
  /\ g_index' = IF engine = "se" THEN cur ELSE g_index
  /\ ldPc' = "done"
  /\ ldRet' = "ok"
  /\ cur' = 0

\* load_v2_mmap, and what load / se_load_index do when it succeeds
LoadV2 ==
  /\ ldPc = "v2"
  /\ \E pos \in Draws(Len(dirBin.did)), k \in Draws(Len(dirBin.uniq) - 1),
        i \in Draws(Len(dirBin.uniq)) :
       IF (IF engine = "SearchEngine"
           THEN load_v2_mmap_SearchEngine(dirBin, objs[cur].cfg, pos, k, i)
           ELSE load_v2_mmap_se(dirBin))
       THEN Install
       ELSE /\ ldPc' = "v1"
            /\ UNCHANGED <<ldRet, cur, objs, g_index>>
  /\ UNCHANGED <<engine, pending, dirBin, dirDocids, dirCfg, rd>>
  /\ UNCHANGED <<buildVars, searchVars, msVars, textVars, scratchVars>>

\* the version 1 fallback
LoadV1 ==
  /\ ldPc = "v1"
  /\ \E pos \in Draws(Len(dirBin.post)), k \in Draws(Len(dirBin.post) - 1) :
       IF load_v1_build_csr(engine, dirBin, objs[cur].cfg, pos, k)
       THEN Install
       ELSE /\ objs' = IF engine = "se" THEN release(objs, cur) ELSE objs
            /\ ldPc' = "done"
            /\ ldRet' = "fail"
            /\ cur' = 0
            /\ UNCHANGED g_index
  /\ UNCHANGED <<engine, pending, dirBin, dirDocids, dirCfg, rd>>
  /\ UNCHANGED <<buildVars, searchVars, msVars, textVars, scratchVars>>

(***************************************************************************)
(* se_search_text as a user of g_index                                      *)
(***************************************************************************)
Readers == 1..Len(rd)

\* auto idx = g_index.load(acquire); a null index returns at once
RdAcquire(r) ==
  /\ r \in Readers
  /\ rd[r].pc = "idle"
  /\ IF g_index = 0
     THEN UNCHANGED <<rd, objs>>
     ELSE /\ rd' = [rd EXCEPT ![r].pc = "search", ![r].ref = g_index]
          /\ objs' = acquire(objs, g_index)
  /\ UNCHANGED <<engine, pending, dirBin, dirDocids, dirCfg, ldPc, ldRet, cur,
                 g_index>>
  /\ UNCHANGED <<buildVars, searchVars, msVars, textVars, scratchVars>>

\* the body of the call: every access goes through idx
RdSearch(r) ==
  /\ r \in Readers
  /\ rd[r].pc = "search"
  /\ rd' = [rd EXCEPT ![r].pc = "scored"]
  /\ UNCHANGED <<engine, pending, dirBin, dirDocids, dirCfg, ldPc, ldRet, cur,
                 objs, g_index>>
  /\ UNCHANGED <<buildVars, searchVars, msVars, textVars, scratchVars>>

\* return: idx goes out of scope
RdReturn(r) ==
  /\ r \in Readers
  /\ rd[r].pc = "scored"
  /\ objs' = release(objs, rd[r].ref)
  /\ rd' = [rd EXCEPT ![r].pc = "idle", ![r].ref = 0]
  /\ UNCHANGED <<engine, pending, dirBin, dirDocids, dirCfg, ldPc, ldRet, cur,
                 g_index>>
  /\ UNCHANGED <<buildVars, searchVars, msVars, textVars, scratchVars>>

(***************************************************************************)
(* Search: SearchEngine::search_text and se_search_text                     *)
(*                                                                         *)
(* A term is [h, df, L, R], a candidate is [did, hits], a scored document   *)
(* is [did, num, den, hits, inter, J, C] where num / (10000 * den) is the   *)
(* exact value of the score (alpha and w9 are kept in hundredths) and J, C  *)
(* are fractions <<n, d>>.                                                  *)
(***************************************************************************)
TOPK_HARD_MAX == 2
RAW_HARD_MAX == 4
INTERSECT_SHINGLES_MAX == 2
U16_MAX == 65535

\* text_common.h hash_shingle_tokens over vector<string>: the loop over j
RECURSIVE hash_tokens_loop(_, _, _, _, _)
hash_tokens_loop(h, toks, start, j, k) ==
  IF j >= k THEN h
  ELSE LET h1 == IF j > 0 THEN fnv_mix(h, SPACE) ELSE h
       IN hash_tokens_loop(fnv_bytes(h1, toks[start + j + 1]), toks, start, j + 1, k)

hash_shingle_tokens(toks, start, k) ==
  hash_tokens_loop(FNV_OFFSET % Pow2(HashBits), toks, start, 0, k)

\* build_shingles: one hash per window, none when n < k
build_shingles(toks, k) ==
  IF Len(toks) < k THEN <<>>
  ELSE [i \in 1..(Len(toks) - k + 1) |-> hash_shingle_tokens(toks, i - 1, k)]

\* std::lower_bound on u: the first position holding a value >= h
lower_bound(u, h) ==
  IF \E i \in 1..Len(u) : u[i] >= h
  THEN CHOOSE i \in 1..Len(u) : u[i] >= h /\ \A j \in 1..(i - 1) : u[j] < h
  ELSE Len(u) + 1

\* Index::get_postings / SearchEngine::find_postings_hint
get_postings(x, h) ==
  LET i == lower_bound(x.uniq, h)
  IN IF Len(x.uniq) = 0 \/ i > Len(x.uniq) \/ x.uniq[i] # h
     THEN [found |-> FALSE, L |-> 0, R |-> 0]
     ELSE [found |-> x.off[i] < x.off[i + 1], L |-> x.off[i], R |-> x.off[i + 1]]

\* the loop that collects the terms of the query hashes hs: a hash the index
\* does not hold, or one with df > max_df_for_seed, is passed over
RECURSIVE collect_terms(_, _, _, _)
collect_terms(x, c, hs, i) ==
  IF i > Len(hs) THEN <<>>
  ELSE LET p == get_postings(x, hs[i])
           df == p.R - p.L
       IN IF ~p.found \/ df = 0 \/ df > c.max_df_for_seed
          THEN collect_terms(x, c, hs, i + 1)
          ELSE <<[h |-> hs[i], df |-> df, L |-> p.L, R |-> p.R]>>
               \o collect_terms(x, c, hs, i + 1)

\* the comparators the search hands to std::nth_element and std::sort
df_less(a, b) == a.df < b.df
h_less(a, b) == a.h < b.h
hits_greater(a, b) == a.hits > b.hits
did_less(a, b) == a.did < b.did
score_greater(a, b) == a.num * b.den > b.num * a.den

before(cmp, a, b) ==
  CASE cmp = "df_less" -> df_less(a, b)
    [] cmp = "h_less" -> h_less(a, b)
    [] cmp = "hits_greater" -> hits_greater(a, b)
    [] cmp = "did_less" -> did_less(a, b)
    [] cmp = "score_greater" -> score_greater(a, b)

\* std::nth_element(first, first + n, last, cmp) followed by resize(n):
\* any n elements none of which has an excluded element before it
nth_element_resize(S, n, cmp) ==
  {T \in SUBSET S : /\ Cardinality(T) = n
                    /\ \A a \in T : \A b \in S \ T : ~before(cmp, b, a)}

\* std::sort(first, last, cmp): any arrangement that respects cmp
sort_by(S, cmp) ==
  {s \in [1..Cardinality(S) -> S] :
     /\ Range(s) = S
     /\ \A i \in 1..Len(s) : \A j \in (i + 1)..Len(s) : ~before(cmp, s[j], s[i])}

\* SearchEngine: the budget loop over the seeds s, giving seeds_used
RECURSIVE seeds_used_loop(_, _, _, _, _)
seeds_used_loop(s, i, sum_df_, used, budget) ==
  IF i > Len(s) THEN used
  ELSE IF used > 0 /\ sum_df_ + s[i].df > budget THEN used
  ELSE seeds_used_loop(s, i + 1, sum_df_ + s[i].df, used + 1, budget)

\* se_search_text: the budget loop, giving [take2, sum_df]
RECURSIVE take2_loop(_, _, _, _, _)
take2_loop(s, take2, take, sum_df_, sum_budget) ==
  IF take2 >= take THEN [take2 |-> take2, sum_df |-> sum_df_]
  ELSE IF sum_budget # 0 /\ sum_df_ + s[take2 + 1].df > sum_budget
       THEN [take2 |-> take2, sum_df |-> sum_df_]
  ELSE take2_loop(s, take2 + 1, take, sum_df_ + s[take2 + 1].df, sum_budget)

\* raw: the postings of the seeds s, in order, cut at raw_cap entries
raw_of(x, s, raw_cap) ==
  LET all == Concat([i \in 1..Len(s) |-> SubSeq(x.did, s[i].L + 1, s[i].R)])
  IN SubSeq(all, 1, Min(Len(all), raw_cap))

\* sort + run-length encoding of raw: one [did, hits] per distinct doc
rle(raw) ==
  {[did |-> d,
    hits |-> Min(Cardinality({i \in 1..Len(raw) : raw[i] = d}), U16_MAX)] :
     d \in Range(raw)}

\* the two-pointer merge of one posting list with the candidates; skip is
\* TRUE for SearchEngine, which steps over repeated doc ids of the list and
\* leaves the candidate pointer, FALSE for se, which advances both
RECURSIVE merge_intersect(_, _, _, _, _, _)
merge_intersect(post, cnd, i, j, cnt, skip) ==
  IF i > Len(post) \/ j > Len(cnd) THEN cnt
  ELSE IF post[i] < cnd[j].did THEN merge_intersect(post, cnd, i + 1, j, cnt, skip)
  ELSE IF post[i] > cnd[j].did THEN merge_intersect(post, cnd, i, j + 1, cnt, skip)
  ELSE LET c1 == IF cnt[j] < U16_MAX THEN [cnt EXCEPT ![j] = @ + 1] ELSE cnt
           nxt == IF \E n \in (i + 1)..Len(post) : post[n] # post[i]
                  THEN CHOOSE n \in (i + 1)..Len(post) :
                         post[n] # post[i] /\ \A m \in (i + 1)..(n - 1) : post[m] = post[i]
                  ELSE Len(post) + 1
       IN IF skip THEN merge_intersect(post, cnd, nxt, j, c1, skip)
          ELSE merge_intersect(post, cnd, i + 1, j + 1, c1, skip)

\* the intersection pass over the terms ts
RECURSIVE intersect_all(_, _, _, _, _)
intersect_all(x, ts, cnd, cnt, skip) ==
  IF ts = <<>> THEN cnt
  ELSE intersect_all(x, Tail(ts), cnd,
                     merge_intersect(SubSeq(x.did, Head(ts).L + 1, Head(ts).R),
                                     cnd, 1, 1, cnt, skip),
                     skip)

\* jc_compute: Jaccard and containment as fractions
jc_compute(i9, q, t) ==
  IF i9 <= 0 \/ q <= 0 \/ t <= 0 THEN [J |-> <<0, 1>>, C |-> <<0, 1>>]
  ELSE LET uni == q + t - i9
       IN [J |-> IF uni > 0 THEN <<i9, uni>> ELSE <<0, 1>>, C |-> <<i9, q>>]

\* tok_len of document did (0-based), 0 when the index has no such document
tok_len_at(x, did) == IF did >= Len(x.docs) THEN 0 ELSE x.docs[did + 1]

\* the scoring loop: the candidates that get a score
scored_of(x, c, cnd, cnt, q) ==
  {LET jc == jc_compute(cnt[i], q, tok_len_at(x, cnd[i].did) - K + 1)
       alpha == clamp01(c.alpha)
       w9 == clamp01(c.w9)
   IN [did |-> cnd[i].did,
       num |-> w9 * (alpha * jc.J[1] * jc.C[2] + (100 - alpha) * jc.C[1] * jc.J[2]),
       den |-> jc.J[2] * jc.C[2],
       hits |-> cnd[i].hits, inter |-> cnt[i], J |-> jc.J, C |-> jc.C] :
     i \in {n \in 1..Len(cnd) :
              /\ cnt[n] > 0
              /\ cnd[n].did < Len(x.docs)
              /\ tok_len_at(x, cnd[n].did) >= c.w_min_doc
              /\ tok_len_at(x, cnd[n].did) - K + 1 > 0}}

\* Variant of top_k_of without the partial selection: the first take scored
\* candidates, whichever they are, sorted by score.
top_k_of_NoSelect(S, take) ==
  UNION {sort_by(T, "score_greater") : T \in {X \in SUBSET S : Cardinality(X) = take}}

\* top-K: nth_element at take, then sort of the first take by score
top_k_of(S, take) ==
  UNION {sort_by(T, "score_greater") : T \in nth_element_resize(S, take, "score_greater")}

\* the index the call works on: the engine itself, or the copy of g_index
Idx == IF engine = "SearchEngine" THEN objs[1] ELSE objs[g_index]

\* raw_cap of se_search_text; SearchEngine::search_text has none
raw_cap_of(x, s) ==
  IF engine = "SearchEngine" THEN Len(x.did) * Len(s)
  ELSE Min(IF sum_df > 0 THEN sum_df ELSE RAW_HARD_MAX, RAW_HARD_MAX)

\* a return of the call with the hits hs; idx goes out of scope
Return(hs) ==
  /\ sPc' = "done"
  /\ out' = hs
  /\ objs' = IF engine = "se" /\ sPc # "idle" THEN release(objs, g_index) ELSE objs

\* entry: argument and loaded checks, normalisation, tokens, the sorted
\* distinct shingle hashes (se cuts them to max_q_uniq9)
SearchStart ==
  /\ sPc = "idle"
  /\ LET args_ok == IF engine = "SearchEngine" THEN top_k > 0
                    ELSE top_k > 0 /\ max_hits > 0
         is_loaded == IF engine = "SearchEngine" THEN objs[1].loaded ELSE g_index # 0
         want == Min(Min(top_k, max_hits), TOPK_HARD_MAX)
         hs == IF engine = "SearchEngine"
               THEN SortSet({hash_shingle_tokens_spans(query, pos, K) :
                               pos \in 0..(Len(query) - K)})
               ELSE SortSet(Range(build_shingles(query, K)))
         qs == IF engine = "se" /\ Len(hs) > Idx.cfg.max_q_uniq9
               THEN SubSeq(hs, 1, Idx.cfg.max_q_uniq9) ELSE hs
     IN IF \/ ~args_ok
           \/ ~is_loaded
           \/ (engine = "se" /\ want <= 0)
           \/ Len(query) < K
           \/ qs = <<>>
        THEN /\ Return(<<>>)
             /\ UNCHANGED q_hashes
        ELSE /\ q_hashes' = qs
             /\ sPc' = "hashed"
             /\ objs' = IF engine = "se" THEN acquire(objs, g_index) ELSE objs
             /\ UNCHANGED out
  /\ UNCHANGED <<query, top_k, max_hits, qterms, seeds, sum_df, cand, inter, q_used>>
  /\ UNCHANGED <<engine, pending, dirBin, dirDocids, dirCfg, ldPc, ldRet, cur,
                 g_index, rd>>
  /\ UNCHANGED <<buildVars, msVars, textVars, scratchVars>>

\* the terms of the query: SearchEngine keeps the max_q_uniq9 rarest and
\* sorts them by hash; se sorts them by df
SearchTerms ==
  /\ sPc = "hashed"
  /\ LET x == Idx
         ts == collect_terms(x, x.cfg, q_hashes, 1)
     IN IF ts = <<>>
        THEN /\ Return(<<>>)
             /\ UNCHANGED qterms
        ELSE /\ IF engine = "SearchEngine"
                THEN \E T \in (IF Len(ts) > x.cfg.max_q_uniq9
                               THEN nth_element_resize(Range(ts), x.cfg.max_q_uniq9, "df_less")
                               ELSE {Range(ts)}) :
                       qterms' \in sort_by(T, "h_less")
                ELSE qterms' \in sort_by(Range(ts), "df_less")
             /\ sPc' = "terms"
             /\ UNCHANGED <<out, objs>>
  /\ UNCHANGED <<query, top_k, max_hits, q_hashes, seeds, sum_df, cand, inter, q_used>>
  /\ UNCHANGED <<engine, pending, dirBin, dirDocids, dirCfg, ldPc, ldRet, cur,
                 g_index, rd>>
  /\ UNCHANGED <<buildVars, msVars, textVars, scratchVars>>

\* SearchEngine::search_text: the fetch_per_k rarest terms, rarest first, cut
\* by the df budget
SeedsSearchEngine ==
  LET c == Idx.cfg
      max_seeds == Min(c.fetch_per_k, Len(qterms))
      budget == IF c.max_sum_df_seeds > 0 THEN c.max_sum_df_seeds
                ELSE c.hard_max_sum_df_seeds
  IN \E T \in nth_element_resize(Range(qterms), max_seeds, "df_less") :
       \E s \in sort_by(T, "df_less") :
         LET used == seeds_used_loop(s, 1, 0, 0, budget)
         IN IF used <= 0
            THEN /\ Return(<<>>)
                 /\ UNCHANGED <<qterms, seeds, sum_df, q_used>>
            ELSE /\ seeds' = SubSeq(s, 1, used)
                 /\ sum_df' = 0
                 /\ q_used' = Len(qterms)
                 /\ sPc' = "seeded"
                 /\ UNCHANGED <<qterms, out, objs>>

\* se_search_text: the first take seeds, and inter_sh, the seeds the
\* intersection pass will use
SeedsSe ==
  LET c == Idx.cfg
      take == Min(Min(Len(qterms), c.fetch_per_k), FETCH_PER_K_HARD_MAX)
      r == take2_loop(qterms, 0, take, 0, c.max_sum_df_seeds)
  IN /\ seeds' = SubSeq(qterms, 1, Max(1, r.take2))
     /\ sum_df' = r.sum_df
     /\ qterms' = SubSeq(qterms, 1, Min(Len(qterms), INTERSECT_SHINGLES_MAX))
     /\ q_used' = Min(Len(qterms), INTERSECT_SHINGLES_MAX)
     /\ sPc' = "seeded"
     /\ UNCHANGED <<out, objs>>

SearchSeeds ==
  /\ sPc = "terms"
  /\ IF engine = "SearchEngine" THEN SeedsSearchEngine ELSE SeedsSe
  /\ UNCHANGED <<query, top_k, max_hits, q_hashes, cand, inter>>
  /\ UNCHANGED <<engine, pending, dirBin, dirDocids, dirCfg, ldPc, ldRet, cur,
                 g_index, rd>>
  /\ UNCHANGED <<buildVars, msVars, textVars, scratchVars>>

\* candidates: the postings of the seeds, sorted and run-length encoded,
\* capped to the max_cands_doc with most seed hits, sorted by doc id
SearchCands ==
  /\ sPc = "seeded"
  /\ LET x == Idx
         all == raw_of(x, seeds, raw_cap_of(x, seeds))
         cs == rle(all)
         keep == x.cfg.max_cands_doc
     IN IF all = <<>>
        THEN /\ Return(<<>>)
             /\ UNCHANGED <<cand, inter>>
        ELSE /\ \E T \in (IF Cardinality(cs) > keep
                          THEN nth_element_resize(cs, keep, "hits_greater")
                          ELSE {cs}) :
                  cand' \in sort_by(T, "did_less")
             /\ inter' = [i \in 1..Len(cand') |-> 0]
             /\ sPc' = "cands"
             /\ UNCHANGED <<out, objs>>
  /\ UNCHANGED <<query, top_k, max_hits, q_hashes, qterms, seeds, sum_df, q_used>>
  /\ UNCHANGED <<engine, pending, dirBin, dirDocids, dirCfg, ldPc, ldRet, cur,
                 g_index, rd>>
  /\ UNCHANGED <<buildVars, msVars, textVars, scratchVars>>

\* the intersection pass: qterms (SearchEngine) or inter_sh (se) against cand
SearchIntersect ==
  /\ sPc = "cands"
  /\ inter' = intersect_all(Idx, qterms, cand, inter, engine = "SearchEngine")
  /\ sPc' = "merged"
  /\ UNCHANGED <<query, top_k, max_hits, q_hashes, qterms, seeds, sum_df, cand,
                 q_used, out>>
  /\ UNCHANGED serveVars
  /\ UNCHANGED <<buildVars, msVars, textVars, scratchVars>>

\* scoring and top-K, then the return
SearchScore ==
  /\ sPc = "merged"
  /\ LET x == Idx
         S == scored_of(x, x.cfg, cand, inter, q_used)
         want == IF engine = "SearchEngine" THEN top_k
                 ELSE Min(Min(top_k, max_hits), TOPK_HARD_MAX)
     IN IF S = {} THEN Return(<<>>)
        ELSE \E hs \in top_k_of(S, Min(Cardinality(S), want)) : Return(hs)
  /\ UNCHANGED <<query, top_k, max_hits, q_hashes, qterms, seeds, sum_df, cand,
                 inter, q_used>>
  /\ UNCHANGED <<engine, pending, dirBin, dirDocids, dirCfg, ldPc, ldRet, cur,
                 g_index, rd>>
  /\ UNCHANGED <<buildVars, msVars, textVars, scratchVars>>

(***************************************************************************)
(* SearchEngine::search_text as a whole: the hit sequences one call on the  *)
(* engine x can return (more than one where nth_element / sort leave the    *)
(* order of equal keys open).                                               *)
(***************************************************************************)
\* scoring and top-K for the candidates cnd
outs_of_cand(x, qt, cnd, k) ==
  LET cnt == intersect_all(x, qt, cnd, [i \in 1..Len(cnd) |-> 0], TRUE)
      S == scored_of(x, x.cfg, cnd, cnt, Len(qt))
  IN IF S = {} THEN {<<>>} ELSE top_k_of(S, Min(Cardinality(S), k))

\* candidates of the used seeds sd
outs_of_seeds(x, qt, sd, k) ==
  LET all == raw_of(x, sd, Len(x.did) * Len(sd))
      cs == rle(all)
      keep == x.cfg.max_cands_doc
  IN IF all = <<>> THEN {<<>>}
     ELSE UNION {UNION {outs_of_cand(x, qt, cnd, k) : cnd \in sort_by(T, "did_less")} :
                   T \in (IF Cardinality(cs) > keep
                          THEN nth_element_resize(cs, keep, "hits_greater")
                          ELSE {cs})}

\* seed selection over the terms qt
outs_of_qterms(x, qt, k) ==
  LET c == x.cfg
      max_seeds == Min(c.fetch_per_k, Len(qt))
      budget == IF c.max_sum_df_seeds > 0 THEN c.max_sum_df_seeds
                ELSE c.hard_max_sum_df_seeds
  IN UNION {UNION {LET used == seeds_used_loop(s, 1, 0, 0, budget)
                   IN IF used <= 0 THEN {<<>>}
                      ELSE outs_of_seeds(x, qt, SubSeq(s, 1, used), k) :
                     s \in sort_by(T, "df_less")} :
              T \in nth_element_resize(Range(qt), max_seeds, "df_less")}

search_text(x, toks, k) ==
  IF ~x.loaded \/ k <= 0 \/ Len(toks) < K THEN {<<>>}
  ELSE LET hs == SortSet({hash_shingle_tokens_spans(toks, pos, K) :
                            pos \in 0..(Len(toks) - K)})
           ts == collect_terms(x, x.cfg, hs, 1)
       IN IF ts = <<>> THEN {<<>>}
          ELSE UNION {UNION {outs_of_qterms(x, qt, k) : qt \in sort_by(T, "h_less")} :
                        T \in (IF Len(ts) > x.cfg.max_q_uniq9
                               THEN nth_element_resize(Range(ts), x.cfg.max_q_uniq9,
                                                       "df_less")
                               ELSE {Range(ts)})}

(***************************************************************************)
(* Multi-index search: the state of a call and of the engine cache         *)
(***************************************************************************)
NullDir == "nullptr"
DirNames == {"dA", "dB", "dDup", "dShort", "dBad"}

\* a null shared_ptr<SearchEngine>
NoEngine == EmptyObj

\* the callers and their calls
MaxCallers == 2
MaxCalls == 3
MaxTime == 1
Callers == 1..MaxCallers

NoRet ==
  [ok |-> FALSE, error |-> "", top_k |-> 0, local_k |-> 0, dirs_ok |-> 0,
   dirs_failed |-> 0, unique_docs_considered |-> 0, hits |-> <<>>, count |-> 0]

make_error_json(code) == [NoRet EXCEPT !.error = code]

NewCall(q, nul, tk, ds) ==
  [pc |-> "start", query |-> q, null_args |-> nul, top_k |-> tk, dirs |-> ds,
   k |-> 0, local_k |-> 0, di |-> 0, agg |-> <<>>, dirs_ok |-> 0,
   dirs_failed |-> 0, entry |-> 0, se |-> NoEngine, ret |-> NoRet,
   locals |-> {}]

NoCall == [NewCall(<<>>, FALSE, 0, <<>>) EXCEPT !.pc = "off"]

NoEnsure ==
  [failed |-> FALSE, due |-> FALSE, tried |-> FALSE,
   fails |-> [d \in DirNames |-> -1]]

MultiIdle ==
  /\ cache_max = 0
  /\ retry_ms = 0
  /\ now = 0
  /\ repaired = FALSE
  /\ entries = <<>>
  /\ g_map = [d \in DirNames |-> 0]
  /\ g_lru = <<>>
  /\ ms = [c \in Callers |-> NoCall]
  /\ calls = 0
  /\ recency = <<>>
  /\ ensured = NoEnsure


(***************************************************************************)
(* Text pipeline (text_common.h): normalization, tokenizers, shingles       *)
(***************************************************************************)
\* decode_utf8_cp at the 0-based position i: [ok, cp, i] after the call
decode_utf8_cp(data, i) ==
  LET n == Len(data)
      c == data[i + 1]
      cont(j) == data[i + 1 + j] \div 64 = 2
      low(j) == data[i + 1 + j] % 64
  IN IF c < 128 THEN [ok |-> TRUE, cp |-> c, i |-> i + 1]
     ELSE IF c \div 32 = 6 /\ i + 1 < n
     THEN IF ~cont(1) THEN [ok |-> FALSE, cp |-> 32, i |-> i + 1]
          ELSE [ok |-> TRUE, cp |-> ((c % 32) * 64) + low(1), i |-> i + 2]
     ELSE IF c \div 16 = 14 /\ i + 2 < n
     THEN IF ~cont(1) \/ ~cont(2) THEN [ok |-> FALSE, cp |-> 32, i |-> i + 1]
          ELSE [ok |-> TRUE, cp |-> ((c % 16) * 4096) + (low(1) * 64) + low(2),
                i |-> i + 3]
     ELSE IF c \div 8 = 30 /\ i + 3 < n
     THEN IF ~cont(1) \/ ~cont(2) \/ ~cont(3)
          THEN [ok |-> FALSE, cp |-> 32, i |-> i + 1]
          ELSE [ok |-> TRUE,
                cp |-> ((c % 8) * 262144) + (low(1) * 4096) + (low(2) * 64) + low(3),
                i |-> i + 4]
     ELSE [ok |-> FALSE, cp |-> 32, i |-> i + 1]

append_utf8_cp(cp) ==
  IF cp <= 127 THEN <<cp>>
  ELSE IF cp <= 2047 THEN <<192 + ((cp \div 64) % 32), 128 + (cp % 64)>>
  ELSE IF cp <= 65535
  THEN <<224 + ((cp \div 4096) % 16), 128 + ((cp \div 64) % 64), 128 + (cp % 64)>>
  ELSE <<240 + ((cp \div 262144) % 8), 128 + ((cp \div 4096) % 64),
         128 + ((cp \div 64) % 64), 128 + (cp % 64)>>

to_lower_ru_kk_tr(cp) ==
  IF cp >= 65 /\ cp <= 90 THEN cp + 32
  ELSE IF cp >= 1040 /\ cp <= 1071 THEN cp + 32
  ELSE IF cp = 1025 THEN 1105
  ELSE IF cp = 1030 THEN 1110
  ELSE IF cp \in {1240, 1170, 1178, 1186, 1256, 1200, 1198, 1210} THEN cp + 1
  ELSE IF cp = 199 THEN 231
  ELSE IF cp = 214 THEN 246
  ELSE IF cp = 220 THEN 252
  ELSE IF cp = 286 THEN 287
  ELSE IF cp = 350 THEN 351
  ELSE IF cp = 304 THEN 105
  ELSE cp

fold_equiv(cp) == IF cp = 1105 THEN 1077 ELSE cp

is_word_cp(cp) ==
  IF cp >= 768 /\ cp <= 879 THEN FALSE
  ELSE \/ cp = 95
       \/ cp >= 48 /\ cp <= 57
       \/ cp >= 97 /\ cp <= 122
       \/ cp >= 65 /\ cp <= 90
       \/ cp >= 192 /\ cp <= 687
       \/ cp >= 1024 /\ cp <= 1279

\* the Unicode spaces normalize_for_shingles_simple turns into ' '
UnicodeSpaces ==
  {160, 8201, 8202, 8239, 8199, 8194, 8195, 8193, 8196, 8197, 8198}

trim_spaces(s) ==
  LET keep == {j \in 1..Len(s) : s[j] # SPACE}
  IN IF keep = {} THEN <<>>
     ELSE SubSeq(s, CHOOSE j \in keep : \A x \in keep : j <= x,
                    CHOOSE j \in keep : \A x \in keep : j >= x)

\* the while loop of normalize_for_shingles_simple
RECURSIVE normalize_loop(_, _, _, _)
normalize_loop(data, i, out_, prev_space) ==
  IF i >= Len(data) THEN out_
  ELSE LET d == decode_utf8_cp(data, i)
           sp == IF prev_space THEN out_ ELSE Append(out_, SPACE)
           cp1 == fold_equiv(to_lower_ru_kk_tr(d.cp))
           cp == IF cp1 = 305 THEN 105 ELSE cp1
       IN IF ~d.ok THEN normalize_loop(data, d.i, sp, TRUE)
          ELSE IF d.cp \in UnicodeSpaces THEN normalize_loop(data, d.i, sp, TRUE)
          ELSE IF cp >= 768 /\ cp <= 879
          THEN normalize_loop(data, d.i, out_, prev_space)
          ELSE IF cp >= 192 /\ cp <= 687 THEN normalize_loop(data, d.i, sp, TRUE)
          ELSE IF is_word_cp(cp)
          THEN normalize_loop(data, d.i, out_ \o append_utf8_cp(cp), FALSE)
          ELSE normalize_loop(data, d.i, sp, TRUE)

normalize_for_shingles_simple(in) == trim_spaces(normalize_loop(in, 0, <<>>, FALSE))

\* simple_tokens: the loop over the bytes, cur is the token being built
RECURSIVE simple_tokens_loop(_, _, _, _)
simple_tokens_loop(txt, j, cur_, toks_) ==
  IF j > Len(txt) THEN (IF cur_ # <<>> THEN Append(toks_, cur_) ELSE toks_)
  ELSE IF txt[j] = SPACE
  THEN simple_tokens_loop(txt, j + 1, <<>>,
                          IF cur_ # <<>> THEN Append(toks_, cur_) ELSE toks_)
  ELSE simple_tokens_loop(txt, j + 1, Append(cur_, txt[j]), toks_)

simple_tokens(txt) == simple_tokens_loop(txt, 1, <<>>, <<>>)

\* the first 0-based position >= i whose byte is (not) a space, or n
RECURSIVE skip_while(_, _, _)
skip_while(txt, i, space) ==
  IF i < Len(txt) /\ ((txt[i + 1] = SPACE) = space)
  THEN skip_while(txt, i + 1, space) ELSE i

\* tokenize_spans: the outer while loop; a span is [off, len]
RECURSIVE tokenize_spans_loop(_, _, _)
tokenize_spans_loop(txt, i, toks_) ==
  LET start == skip_while(txt, i, TRUE)
      end == skip_while(txt, start, FALSE)
  IN IF i >= Len(txt) \/ start >= Len(txt) THEN toks_
     ELSE tokenize_spans_loop(txt, end,
            IF end - start > 0
            THEN Append(toks_, [off |-> start, len |-> end - start]) ELSE toks_)

tokenize_spans(txt) == tokenize_spans_loop(txt, 0, <<>>)

\* the bytes norm.data() + ts.off .. + ts.len of each span
SpanBytes(nrm, sps) ==
  [j \in 1..Len(sps) |-> SubSeq(nrm, sps[j].off + 1, sps[j].off + sps[j].len)]

\* build_shingles_spans: one hash per window of k spans
build_shingles_spans(nrm, sps, k) ==
  IF Len(sps) < k THEN <<>>
  ELSE [j \in 1..(Len(sps) - k + 1) |->
          hash_shingle_tokens_spans(SpanBytes(nrm, sps), j - 1, k)]

\* the query threads
MaxThreads == 2
QThreads == 1..MaxThreads

\* a thread that is in no call
NoFrame ==
  [pc |-> "idle", query |-> <<>>, top_k |-> 0, max_hits |-> 0, out |-> <<>>,
   seeds |-> <<>>, inter_sh |-> <<>>, sum_df |-> 0, q_used |-> 0, n |-> 0]

\* the buffers of a thread that has run no query
NoScratch ==
  [spans |-> <<>>, q_hashes |-> <<>>, qterms |-> <<>>, idx_all |-> <<>>,
   raw |-> <<>>, cand |-> <<>>, inter |-> <<>>]

ScratchIdle ==
  /\ th = [t \in QThreads |-> NoFrame]
  /\ tls = [t \in QThreads |-> NoScratch]

TextIdle ==
  /\ tx_text = <<>>
  /\ tPc = "idle"
  /\ tx_norm = <<>>
  /\ txDone = {}
  /\ tx_spans = <<>>
  /\ tx_span_hashes = <<>>
  /\ tx_toks = <<>>
  /\ tx_tok_hashes = <<>>

TxNormalize ==
  /\ tPc = "raw"
  /\ tx_norm' = normalize_for_shingles_simple(tx_text)
  /\ tPc' = "norm"
  /\ UNCHANGED <<tx_text, txDone, tx_spans, tx_span_hashes, tx_toks,
                 tx_tok_hashes>>
  /\ UNCHANGED <<buildVars, serveVars, searchVars, msVars, scratchVars>>

\* builder and SearchEngine: tokenize_spans, hash_shingle_tokens_spans
TxSpans ==
  /\ tPc = "norm"
  /\ "spans" \notin txDone
  /\ tx_spans' = tokenize_spans(tx_norm)
  /\ tx_span_hashes' = build_shingles_spans(tx_norm, tx_spans', K)
  /\ txDone' = txDone \cup {"spans"}
  /\ UNCHANGED <<tx_text, tPc, tx_norm, tx_toks, tx_tok_hashes>>
  /\ UNCHANGED <<buildVars, serveVars, searchVars, msVars, scratchVars>>

\* se_search_text: simple_tokens, build_shingles
TxTokens ==
  /\ tPc = "norm"
  /\ "tokens" \notin txDone
  /\ tx_toks' = simple_tokens(tx_norm)
  /\ tx_tok_hashes' = build_shingles(tx_toks', K)
  /\ txDone' = txDone \cup {"tokens"}
  /\ UNCHANGED <<tx_text, tPc, tx_norm, tx_spans, tx_span_hashes>>
  /\ UNCHANGED <<buildVars, serveVars, searchVars, msVars, scratchVars>>

NextText == TxNormalize \/ TxSpans \/ TxTokens


(***************************************************************************)
(* Specifications                                                           *)
(***************************************************************************)
MaxLoads == 2
MaxReaders == 2

BuildIdle ==
  /\ variant = "level5"
  /\ merge_max_way = MERGE_MAX_WAY
  /\ corpus = <<>>
  /\ numWorkers = 1
  /\ rdPos = 0
  /\ rr = 0
  /\ queues = [q \in 0..(MaxWorkers - 1) |-> <<>>]
  /\ closed = [q \in 0..(MaxWorkers - 1) |-> FALSE]
  /\ wk = [t \in 0..(MaxWorkers - 1) |-> InitWorker]
  /\ phase = "idle"
  /\ bases = <<>>
  /\ runs = <<>>
  /\ pass = 0
  /\ all_ids = <<>>
  /\ all_meta = <<>>
  /\ csr = NoCsr
  /\ tmpBin = NoFile
  /\ fsBin = PrevIndex
  /\ fsDocids = PrevDocids
  /\ exitCode = -1

ServeIdle ==
  /\ engine = "se"
  /\ pending = <<>>
  /\ dirBin = NoIndexFile
  /\ dirDocids = NoSidecar
  /\ dirCfg = DefaultCfg
  /\ ldPc = "idle"
  /\ ldRet = "none"
  /\ cur = 0
  /\ objs = <<>>
  /\ g_index = 0
  /\ rd = <<>>

SearchIdle ==
  /\ query = <<>>
  /\ top_k = 0
  /\ max_hits = 0
  /\ sPc = "idle"
  /\ q_hashes = <<>>
  /\ qterms = <<>>
  /\ seeds = <<>>
  /\ sum_df = 0
  /\ cand = <<>>
  /\ inter = <<>>
  /\ q_used = 0
  /\ out = <<>>

vars == <<buildVars, serveVars, searchVars, msVars, textVars, scratchVars>>

\* a build: the service and the search are not running
Init == InitBuild /\ ServeIdle /\ SearchIdle /\ MultiIdle /\ TextIdle /\ ScratchIdle

Next == NextBuild

Spec == Init /\ [][Next]_vars

\* ENABLED <<WorkerPop(t)>>_vars: a pop always shortens the queue
PopEnabled(t) ==
  /\ phase = "ingest"
  /\ t \in Workers
  /\ wk[t].pc = "run"
  /\ pop_ready(QOf(t))
  /\ queues[QOf(t)] # <<>>

\* WF_vars(WorkerPop(t)), with its ENABLED written as the state predicate above
FairWorkerPop(t) == []<>(~PopEnabled(t)) \/ []<><<WorkerPop(t)>>_vars

\* the same build with every thread scheduled: the reader (main thread) keeps
\* running, and each worker thread that can take a step eventually takes one
Fairness ==
  /\ WF_vars(ReaderPush)
  /\ WF_vars(ReaderClose)
  /\ WF_vars(MainJoin)
  /\ \A t \in 0..(MaxWorkers - 1) : WF_vars(WorkerExit(t)) /\ FairWorkerPop(t)

SpecLive == Init /\ [][Next]_vars /\ Fairness

\* The texts: up to MaxUnits pieces, each the UTF-8 encoding of a code point
\* ('a', 'E', ' ', U+00E9, U+0301, U+0401) or a stray continuation byte.
MaxUnits == 5

Units ==
  {append_utf8_cp(97), append_utf8_cp(69), append_utf8_cp(32),
   append_utf8_cp(233), append_utf8_cp(769), append_utf8_cp(1025), <<128>>}

Texts == {Concat(us) : us \in UNION {[1..n -> Units] : n \in 0..MaxUnits}}

InitText ==
  /\ BuildIdle
  /\ ScratchIdle
  /\ ServeIdle
  /\ SearchIdle
  /\ MultiIdle
  /\ tx_text \in Texts
  /\ tPc = "raw"
  /\ tx_norm = <<>>
  /\ txDone = {}
  /\ tx_spans = <<>>
  /\ tx_span_hashes = <<>>
  /\ tx_toks = <<>>
  /\ tx_tok_hashes = <<>>

SpecText == InitText /\ [][NextText]_vars

\* builds of corpora with about as many documents as a std::uint32_t counts
WideCorpora ==
  {[i \in 1..n |-> <<A, A, A>>] : n \in U32_MAX..(U32_MAX + 2)}

InitU32 ==
  InitBuildOn(WideCorpora) /\ ServeIdle /\ SearchIdle /\ MultiIdle /\ TextIdle /\ ScratchIdle

SpecU32 == InitU32 /\ [][Next]_vars

\* The builder under every PLAGIO_MERGE_MAX_WAY setting, on inputs that leave
\* one run per document, with every thread scheduled.
MaxRunDocs == 7
MergeWayEnvs == {-1, 0, 1, 2, 3}
RunCorpora == {[i \in 1..n |-> <<A, B, A>>] : n \in 1..MaxRunDocs}
InitWay == InitBuildWay(RunCorpora, MergeWayEnvs) /\ ServeIdle /\ SearchIdle /\ MultiIdle /\ TextIdle /\ ScratchIdle
ReduceEnabled == phase = "reduce" /\ Len(runs) > Fanin
FairReducePass == []<>(~ReduceEnabled) \/ []<><<ReducePass>>_vars
SpecReduce == InitWay /\ [][Next]_vars /\ Fairness /\ FairReducePass

\* A run file on disk is damaged between its write and its read by a merge
\* ("corrupt or partial write"): two neighbouring records change places.
SwapAt(recs, j) ==
  [i \in 1..Len(recs) |->
     IF i = j THEN recs[j + 1] ELSE IF i = j + 1 THEN recs[j] ELSE recs[i]]

RunFileDamaged ==
  /\ phase = "reduce"
  /\ \A i \in 1..Len(runs) : IsSortedPairs(runs[i].recs)
  /\ \E i \in 1..Len(runs) : \E j \in 1..(Len(runs[i].recs) - 1) :
       /\ runs[i].recs[j] # runs[i].recs[j + 1]
       /\ runs' = [runs EXCEPT ![i].recs = SwapAt(@, j)]
  /\ UNCHANGED <<variant, merge_max_way, corpus, numWorkers, rdPos, rr, queues, closed, wk,
                 phase, bases, pass, all_ids, all_meta, csr, tmpBin, fsBin,
                 fsDocids, exitCode>>
  /\ UNCHANGED <<serveVars, searchVars, msVars, textVars, scratchVars>>

NextDamage == NextBuild \/ RunFileDamaged

SpecDamage == Init /\ [][NextDamage]_vars

\* the index an earlier load installed
PrevObj == [Filled(EmptyObj, BaseA, <<101, 102>>) EXCEPT !.refs = 1]

\* one load of one directory, by either engine, over a loaded engine
InitLoadOn(bins, sides, cfgs) ==
  /\ BuildIdle
  /\ TextIdle
  /\ ScratchIdle
  /\ MultiIdle
  /\ SearchIdle
  /\ engine \in {"SearchEngine", "se"}
  /\ pending \in {<<[bin |-> b, docids |-> d, cfg |-> c]>> :
                    b \in bins, d \in sides, c \in cfgs}
  /\ dirBin = NoIndexFile
  /\ dirDocids = NoSidecar
  /\ dirCfg = DefaultCfg
  /\ ldPc = "idle"
  /\ ldRet = "none"
  /\ cur = 0
  /\ objs = <<PrevObj>>
  /\ g_index = IF engine = "se" THEN 1 ELSE 0
  /\ rd = <<>>

InitLoad == InitLoadOn(BinFiles, Sidecars, LoadCfgs)

\* index_config.json files with values below and above every range
RangeCfgs ==
  {[DefaultCfg EXCEPT !.w_min_doc = a, !.w_min_query = a,
                      !.fetch_per_k = b, !.max_cands_doc = b,
                      !.max_q_uniq9 = c, !.max_df_for_seed = a,
                      !.max_sum_df_seeds = d, !.hard_max_sum_df_seeds = d,
                      !.alpha = e, !.w9 = e] :
     a \in {-1, 0, 2}, b \in {0, 2, FETCH_PER_K_HARD_MAX + 1},
     c \in {0, 1, 3, MAX_Q_UNIQ9_HARD_MAX + 1},
     d \in {0, 6, MAX_SUM_DF_HARD_MAX + 1}, e \in {-10, 60, 150}}

InitCfg ==
  InitLoadOn({BaseA, BaseB, BaseV1, [BaseA EXCEPT !.magic = "PLAX"]},
             {[ok |-> FALSE, ids |-> <<>>],
              [ok |-> TRUE, ids |-> <<101, 102, 103>>]}, RangeCfgs)

NextLoad ==
  \/ LoadStart
  \/ LoadDocids
  \/ LoadV2
  \/ LoadV1

SpecLoad == InitLoad /\ [][NextLoad]_vars

SpecCfg == InitCfg /\ [][NextLoad]_vars

\* the directories the service is reloaded from while searches run
SwapDirs ==
  {[bin |-> b, docids |-> [ok |-> TRUE, ids |-> [i \in 1..b.N_docs |-> 100 + i]],
    cfg |-> DefaultCfg] :
     b \in {BaseA, BaseB, BaseV1, [BaseA EXCEPT !.did[1] = 2]}}

InitSwap ==
  /\ BuildIdle
  /\ TextIdle
  /\ ScratchIdle
  /\ MultiIdle
  /\ SearchIdle
  /\ engine = "se"
  /\ pending \in UNION {[1..n -> SwapDirs] : n \in 1..MaxLoads}
  /\ dirBin = NoIndexFile
  /\ dirDocids = NoSidecar
  /\ dirCfg = DefaultCfg
  /\ ldPc = "idle"
  /\ ldRet = "none"
  /\ cur = 0
  /\ objs = <<>>
  /\ g_index = 0
  /\ rd = [r \in 1..MaxReaders |-> [pc |-> "idle", ref |-> 0]]

NextSwap ==
  \/ LoadStart
  \/ LoadDocids
  \/ LoadV2
  \/ LoadV1
  \/ \E r \in 1..MaxReaders : RdAcquire(r)
  \/ \E r \in 1..MaxReaders : RdSearch(r)
  \/ \E r \in 1..MaxReaders : RdReturn(r)

SpecSwap == InitSwap /\ [][NextSwap]_vars

\* the index the searches run on: the level5 build of four documents
SearchDocs == << <<A, A, B>>, <<A, B, A>>, <<A, B, B>>, <<B, B, A, A>> >>

SearchFile ==
  LET recs == SortRecs(Concat([d \in 1..Len(SearchDocs) |->
                [i \in 1..Len(DocHashes(CapTokens(SearchDocs[d]))) |->
                   <<DocHashes(CapTokens(SearchDocs[d]))[i], d - 1>>]]))
      c == merge_runs_to_csr(<<[kind |-> 2, tid |-> 0, base |-> 0, recs |-> recs]>>,
                             <<0>>)
  IN [magic |-> "PLAG", version |-> 2, N_docs |-> Len(SearchDocs),
      docs_meta |-> [d \in 1..Len(SearchDocs) |-> Len(CapTokens(SearchDocs[d]))],
      uniq |-> c.uniq, off |-> c.off, did |-> c.did, post |-> <<>>, cut |-> 0]

\* the files the searches run on: the built one, and the same file whose
\* DocMeta gives document 0 a tok_len of K, one shingle, while two posting
\* slices hold the document
SearchFiles == {SearchFile, [SearchFile EXCEPT !.docs_meta[1] = K]}

\* the load of file f by engine e with config c returns success
Loadable(e, f, c) ==
  IF e = "se" THEN load_v2_mmap_se(f)
  ELSE \E pos \in Draws(Len(f.did)) : \E k \in Draws(Len(f.uniq)) :
         \E i \in Draws(Len(f.uniq)) : load_v2_mmap_SearchEngine(f, c, pos, k, i)

\* the search knobs of index_config.json
SearchCfgs ==
  {[DefaultCfg EXCEPT !.w_min_query = a, !.max_df_for_seed = b, !.fetch_per_k = c,
                      !.max_cands_doc = d, !.max_q_uniq9 = e, !.max_sum_df_seeds = f] :
     a \in {1, 2, 3}, b \in {1, 2, 3}, c \in {1, 2}, d \in {1, 3}, e \in {1, 3},
     f \in {0, 2}}

\* the token sequences of the queries; <<99>> is a token no document holds
Queries ==
  { <<>>, <<A>>, <<A, B>>, <<A, <<99>>>>, <<A, B, <<99>>>>, <<A, A, B>>, <<A, B, B>>,
    <<A, B, A>>,
    <<A, A, B, B>>, <<A, B, B, A>>, <<B, B, A, A, B>> }

\* one search call on a loaded engine, or on an engine that never loaded
InitSearchOn(cfgs) ==
  /\ BuildIdle
  /\ TextIdle
  /\ ScratchIdle
  /\ MultiIdle
  /\ engine \in {"SearchEngine", "se"}
  /\ pending = <<>>
  /\ dirBin = NoIndexFile
  /\ dirDocids = NoSidecar
  /\ dirCfg = DefaultCfg
  /\ ldPc = "idle"
  /\ ldRet = "none"
  /\ cur = 0
  /\ rd = <<>>
  /\ \/ /\ \E j \in cfgs : \E f \in SearchFiles :
             /\ Loadable(engine, f, load_config_from_json(engine, j)) = TRUE
             /\ objs = <<[Filled(EmptyObj, f, [i \in 1..f.N_docs |-> 100 + i])
                            EXCEPT !.cfg = load_config_from_json(engine, j),
                                   !.refs = 1]>>
        /\ g_index = IF engine = "se" THEN 1 ELSE 0
     \/ /\ objs = IF engine = "se" THEN <<>> ELSE <<EmptyObj>>
        /\ g_index = 0
  /\ query \in Queries
  /\ top_k \in {0, 1, 3}
  /\ max_hits \in IF engine = "se" THEN {0, 2, 3} ELSE {0}
  /\ sPc = "idle"
  /\ q_hashes = <<>>
  /\ qterms = <<>>
  /\ seeds = <<>>
  /\ sum_df = 0
  /\ cand = <<>>
  /\ inter = <<>>
  /\ q_used = 0
  /\ out = <<>>

InitSearch == InitSearchOn(SearchCfgs)

\* the seed budget knobs of index_config.json
SeedCfgs ==
  {[DefaultCfg EXCEPT !.fetch_per_k = c, !.max_sum_df_seeds = f,
                      !.hard_max_sum_df_seeds = g] :
     c \in {1, 2, 3}, f \in {0, 2, 6}, g \in {0, 4, 8}}

InitSeeds == InitSearchOn(SeedCfgs)

NextSearch ==
  \/ SearchStart
  \/ SearchTerms
  \/ SearchSeeds
  \/ SearchCands
  \/ SearchIntersect
  \/ SearchScore

SpecSearch == InitSearch /\ [][NextSearch]_vars

(***************************************************************************)
(* Queries of several threads on one loaded engine, each thread with its   *)
(* thread_local scratch buffers, which a query finds as the thread's last   *)
(* query left them.                                                         *)
(***************************************************************************)
MaxQueries == 2

\* static thread_local g_tls: the instance thread t works on
tls_of(t) == t

\* Variant of clear_soft that leaves the buffers as they are.
clear_soft_Keep(b) == b

\* TLSBufs::clear_soft: every buffer is emptied
clear_soft(b) ==
  [spans |-> <<>>, q_hashes |-> <<>>, qterms |-> <<>>, idx_all |-> <<>>,
   raw |-> <<>>, cand |-> <<>>, inter |-> <<>>]

\* std::vector::clear
vec_clear(v) == <<>>

\* se_search_text: tls.inter grows to n entries when shorter, and its first n
\* entries are zeroed
inter_reset(v, n) == [i \in 1..Max(Len(v), n) |-> IF i <= n THEN 0 ELSE v[i]]

\* the call returns hs, leaving the buffers b
Done(f, b, hs) == [f |-> [f EXCEPT !.pc = "done", !.out = hs], b |-> b]

\* SearchEngine::search_text: seed choice over g_tls.qterms into g_tls.idx_all
seeds_SearchEngine(x, f, b) ==
  LET c == x.cfg
      max_seeds == Min(c.fetch_per_k, Len(b.qterms))
      budget == IF c.max_sum_df_seeds > 0 THEN c.max_sum_df_seeds
                ELSE c.hard_max_sum_df_seeds
  IN UNION {{LET used == seeds_used_loop(s, 1, 0, 0, budget)
             IN IF used <= 0 THEN Done(f, [b EXCEPT !.idx_all = s], <<>>)
                ELSE [f |-> [f EXCEPT !.pc = "seeded", !.q_used = Len(b.qterms)],
                      b |-> [b EXCEPT !.idx_all = SubSeq(s, 1, used)]] :
               s \in sort_by(T, "df_less")} :
              T \in nth_element_resize(Range(b.qterms), max_seeds, "df_less")}

\* SearchEngine::search_text up to the seeds: clear_soft, then spans, hashes
\* and terms are pushed onto the buffers
start_SearchEngine(x, f, b) ==
  IF ~x.loaded \/ f.top_k <= 0 THEN {Done(f, b, <<>>)}
  ELSE LET b0 == clear_soft(b)
           spans == b0.spans \o f.query
           b1 == [b0 EXCEPT !.spans = spans]
       IN IF Len(spans) < K THEN {Done(f, b1, <<>>)}
          ELSE LET hs == SortSet(Range(b0.q_hashes) \cup
                                 {hash_shingle_tokens_spans(spans, pos, K) :
                                    pos \in 0..(Len(spans) - K)})
                   b2 == [b1 EXCEPT !.q_hashes = hs, !.qterms = vec_clear(b1.qterms)]
                   ts == collect_terms(x, x.cfg, hs, 1)
               IN IF ts = <<>> THEN {Done(f, b2, <<>>)}
                  ELSE UNION {UNION {seeds_SearchEngine(x, f, [b2 EXCEPT !.qterms = qt]) :
                                       qt \in sort_by(T, "h_less")} :
                                T \in (IF Len(ts) > x.cfg.max_q_uniq9
                                       THEN nth_element_resize(Range(ts), x.cfg.max_q_uniq9,
                                                               "df_less")
                                       ELSE {Range(ts)})}

\* se_search_text: the seeds (a local vector) and inter_sh from the terms s
seeded_se(x, f, b, s) ==
  LET c == x.cfg
      take == Min(Min(Len(s), c.fetch_per_k), FETCH_PER_K_HARD_MAX)
      r == take2_loop(s, 0, take, 0, c.max_sum_df_seeds)
      n == Min(Len(s), INTERSECT_SHINGLES_MAX)
  IN [f |-> [f EXCEPT !.pc = "seeded", !.seeds = SubSeq(s, 1, Max(1, r.take2)),
                      !.sum_df = r.sum_df, !.inter_sh = SubSeq(s, 1, n), !.q_used = n],
      b |-> b]

\* se_search_text up to the seeds: tls.q_sh is cleared and refilled
start_se(x, f, b) ==
  LET want == Min(Min(f.top_k, f.max_hits), TOPK_HARD_MAX)
  IN IF f.top_k <= 0 \/ f.max_hits <= 0 \/ want <= 0 \/ Len(f.query) < K
     THEN {Done(f, b, <<>>)}
     ELSE LET q0 == vec_clear(b.q_hashes) \o build_shingles(f.query, K)
              q1 == SortSet(Range(q0))
              qs == IF Len(q1) > x.cfg.max_q_uniq9
                    THEN SubSeq(q1, 1, x.cfg.max_q_uniq9) ELSE q1
              b1 == [b EXCEPT !.q_hashes = qs]
              ts == collect_terms(x, x.cfg, qs, 1)
          IN IF qs = <<>> \/ ts = <<>> THEN {Done(f, b1, <<>>)}
             ELSE {seeded_se(x, f, b1, s) : s \in sort_by(Range(ts), "df_less")}

\* candidates: SearchEngine pushes onto the raw and cand that clear_soft
\* left, se clears both first; inter_cnt is assigned, tls.inter reset
cands_of(e, x, f, b) ==
  LET sd == IF e = "SearchEngine" THEN b.idx_all ELSE f.seeds
      cap == IF e = "SearchEngine" THEN Len(x.did) * Len(sd)
             ELSE Min(IF f.sum_df > 0 THEN f.sum_df ELSE RAW_HARD_MAX, RAW_HARD_MAX)
      raw == (IF e = "SearchEngine" THEN b.raw ELSE vec_clear(b.raw)) \o raw_of(x, sd, cap)
      cs == Range(IF e = "SearchEngine" THEN b.cand ELSE vec_clear(b.cand)) \cup rle(raw)
      keep == x.cfg.max_cands_doc
  IN IF raw = <<>> THEN {Done(f, [b EXCEPT !.raw = raw], <<>>)}
     ELSE UNION {{[f |-> [f EXCEPT !.pc = "cands"],
                   b |-> [b EXCEPT !.raw = raw, !.cand = cnd,
                                   !.inter = IF e = "SearchEngine"
                                             THEN [i \in 1..Len(cnd) |-> 0]
                                             ELSE inter_reset(b.inter, Len(cnd))]] :
                    cnd \in sort_by(T, "did_less")} :
                   T \in (IF Cardinality(cs) > keep
                          THEN nth_element_resize(cs, keep, "hits_greater")
                          ELSE {cs})}

\* intersection over the first |cand| counters, scoring, top-K
score_of(e, x, f, b) ==
  LET n == Len(b.cand)
      ts == IF e = "SearchEngine" THEN b.qterms ELSE f.inter_sh
      cnt == intersect_all(x, ts, b.cand, SubSeq(b.inter, 1, n), e = "SearchEngine")
      b2 == [b EXCEPT !.inter = cnt \o SubSeq(b.inter, n + 1, Len(b.inter))]
      S == scored_of(x, x.cfg, b.cand, cnt, f.q_used)
      want == IF e = "SearchEngine" THEN f.top_k
              ELSE Min(Min(f.top_k, f.max_hits), TOPK_HARD_MAX)
  IN IF S = {} THEN {Done(f, b2, <<>>)}
     ELSE {Done(f, b2, hs) : hs \in top_k_of(S, Min(Cardinality(S), want))}

\* one step of a call from the frame f on the buffers b
query_step(e, x, f, b) ==
  CASE f.pc = "start" -> IF e = "SearchEngine" THEN start_SearchEngine(x, f, b)
                         ELSE start_se(x, f, b)
    [] f.pc = "seeded" -> cands_of(e, x, f, b)
    [] f.pc = "cands" -> score_of(e, x, f, b)
    [] OTHER -> {[f |-> f, b |-> b]}

\* the hit lists a call can return on a thread that has run no query before
fresh_outs(e, x, q, k, mh) ==
  LET f0 == [NoFrame EXCEPT !.pc = "start", !.query = q, !.top_k = k, !.max_hits = mh]
      s1 == query_step(e, x, f0, NoScratch)
      s2 == UNION {query_step(e, x, r.f, r.b) : r \in s1}
      s3 == UNION {query_step(e, x, r.f, r.b) : r \in s2}
  IN {r.f.out : r \in s3}

ScratchQueries == { <<A>>, <<A, A, B>>, <<B, B, A, A, B>> }

ScratchCfgs ==
  {[DefaultCfg EXCEPT !.max_cands_doc = d] : d \in {1, 3}}

\* a thread calls search_text / se_search_text
QCall(t) ==
  /\ th[t].pc \in {"idle", "done"}
  /\ th[t].n < MaxQueries
  /\ \E q \in ScratchQueries : \E k \in {1, 2} :
       \E mh \in (IF engine = "se" THEN {1, 3} ELSE {0}) :
         th' = [th EXCEPT ![t] = [NoFrame EXCEPT !.pc = "start", !.query = q,
                                                  !.top_k = k, !.max_hits = mh,
                                                  !.n = th[t].n + 1]]
  /\ UNCHANGED tls
  /\ UNCHANGED <<buildVars, serveVars, searchVars, msVars, textVars>>

\* the frame and the buffers after a step, and the reference the call holds
\* on the Index (se: taken at the start, dropped at the return)
QStepTo(t, r) ==
  /\ th' = [th EXCEPT ![t] = r.f]
  /\ tls' = [tls EXCEPT ![tls_of(t)] = r.b]
  /\ objs' = IF engine # "se" THEN objs
             ELSE IF th[t].pc = "start" /\ r.f.pc # "done" THEN acquire(objs, g_index)
             ELSE IF th[t].pc # "start" /\ r.f.pc = "done" THEN release(objs, g_index)
             ELSE objs
  /\ UNCHANGED <<engine, pending, dirBin, dirDocids, dirCfg, ldPc, ldRet, cur,
                 g_index, rd>>
  /\ UNCHANGED <<buildVars, searchVars, msVars, textVars>>

\* argument checks, hashes, terms and seeds
QStart(t) ==
  /\ th[t].pc = "start"
  /\ \E r \in query_step(engine, Idx, th[t], tls[tls_of(t)]) : QStepTo(t, r)

\* raw and cand
QCands(t) ==
  /\ th[t].pc = "seeded"
  /\ \E r \in query_step(engine, Idx, th[t], tls[tls_of(t)]) : QStepTo(t, r)

\* intersection, scores and the return
QScore(t) ==
  /\ th[t].pc = "cands"
  /\ \E r \in query_step(engine, Idx, th[t], tls[tls_of(t)]) : QStepTo(t, r)

InitScratch ==
  /\ BuildIdle
  /\ TextIdle
  /\ MultiIdle
  /\ SearchIdle
  /\ ScratchIdle
  /\ engine \in {"SearchEngine", "se"}
  /\ pending = <<>>
  /\ dirBin = NoIndexFile
  /\ dirDocids = NoSidecar
  /\ dirCfg = DefaultCfg
  /\ ldPc = "idle"
  /\ ldRet = "none"
  /\ cur = 0
  /\ rd = <<>>
  /\ objs \in {<<[Filled(EmptyObj, SearchFile, [i \in 1..SearchFile.N_docs |-> 100 + i])
                   EXCEPT !.cfg = load_config_from_json(engine, j), !.refs = 1]>> :
                 j \in ScratchCfgs}
  /\ g_index = IF engine = "se" THEN 1 ELSE 0

NextScratch ==
  \E t \in QThreads :
    \/ QCall(t)
    \/ QStart(t)
    \/ QCands(t)
    \/ QScore(t)

SpecScratch == InitScratch /\ [][NextScratch]_vars

(***************************************************************************)
(* A load of the directory the level5 builder is publishing into            *)
(***************************************************************************)

\* index_native.bin as an open of the path finds it now
BinOnDisk ==
  IF fsBin.build = "none" THEN [NoIndexFile EXCEPT !.magic = "none"] @@ [build |-> "none"]
  ELSE [magic |-> "PLAG", version |-> fsBin.version, N_docs |-> fsBin.N_docs,
        docs_meta |-> fsBin.docs_meta, uniq |-> fsBin.uniq, off |-> fsBin.off,
        did |-> fsBin.did, post |-> <<>>, cut |-> 0, build |-> fsBin.build]

\* index_native_docids.json as an open of the path finds it now
DocidsOnDisk ==
  [ok |-> fsDocids.build # "none", ids |-> fsDocids.ids, build |-> fsDocids.build]

\* load / se_load_index: reset_all or a new Index, and the configuration
PubLoadStart ==
  /\ ldPc \in {"idle", "done"}
  /\ engine = "se" => Len(objs) < MaxLoads
  /\ LET o == [EmptyObj EXCEPT !.cfg = load_config_from_json(engine, DefaultCfg),
                               !.refs = 1]
     IN IF engine = "SearchEngine"
        THEN objs' = [objs EXCEPT ![1] = o] /\ cur' = 1
        ELSE objs' = Append(objs, o) /\ cur' = Len(objs) + 1
  /\ dirBin' = NoIndexFile
  /\ dirDocids' = NoSidecar
  /\ ldPc' = "docids"
  /\ ldRet' = "none"
  /\ UNCHANGED <<engine, pending, dirCfg, g_index, rd>>
  /\ UNCHANGED <<buildVars, searchVars, msVars, textVars, scratchVars>>

\* the load fails: the local Index is dropped (se), false / -1 is returned
PubLoadFail ==
  /\ objs' = IF engine = "se" THEN release(objs, cur) ELSE objs
  /\ ldPc' = "done"
  /\ ldRet' = "fail"
  /\ cur' = 0
  /\ UNCHANGED g_index

\* the load succeeds with the file f
PubInstall(f) ==
  /\ objs' = IF engine = "se"
             THEN release([objs EXCEPT ![cur] = Filled(@, f, @.doc_ids)], g_index)
             ELSE [objs EXCEPT ![cur] = Filled(@, f, @.doc_ids)]
  /\ g_index' = IF engine = "se" THEN cur ELSE g_index
  /\ ldPc' = "done"
  /\ ldRet' = "ok"
  /\ cur' = 0

\* load_docids_json / the docids block of se_load_index: the sidecar is
\* opened and read before the bin file
PubLoadDocids ==
  /\ ldPc = "docids"
  /\ dirDocids' = DocidsOnDisk
  /\ IF DocidsOnDisk.ok
     THEN /\ objs' = [objs EXCEPT ![cur].doc_ids = DocidsOnDisk.ids]
          /\ ldPc' = "v2"
          /\ UNCHANGED <<ldRet, cur, g_index>>
     ELSE PubLoadFail
  /\ UNCHANGED <<engine, pending, dirBin, dirCfg, rd>>
  /\ UNCHANGED <<buildVars, searchVars, msVars, textVars, scratchVars>>

\* load_v2_mmap on the bin file as it is when it is opened
PubLoadV2 ==
  /\ ldPc = "v2"
  /\ dirBin' = BinOnDisk
  /\ \E pos \in Draws(Len(BinOnDisk.did)), k \in Draws(Len(BinOnDisk.uniq) - 1),
        i \in Draws(Len(BinOnDisk.uniq)) :
       IF (IF engine = "SearchEngine"
           THEN load_v2_mmap_SearchEngine(BinOnDisk, objs[cur].cfg, pos, k, i)
           ELSE load_v2_mmap_se(BinOnDisk))
       THEN PubInstall(BinOnDisk)
       ELSE /\ ldPc' = "v1"
            /\ UNCHANGED <<ldRet, cur, objs, g_index>>
  /\ UNCHANGED <<engine, pending, dirDocids, dirCfg, rd>>
  /\ UNCHANGED <<buildVars, searchVars, msVars, textVars, scratchVars>>

\* the version 1 fallback opens the bin file again
PubLoadV1 ==
  /\ ldPc = "v1"
  /\ dirBin' = BinOnDisk
  /\ \E pos \in Draws(Len(BinOnDisk.post)), k \in Draws(Len(BinOnDisk.post) - 1) :
       IF load_v1_build_csr(engine, BinOnDisk, objs[cur].cfg, pos, k)
       THEN PubInstall(BinOnDisk)
       ELSE PubLoadFail
  /\ UNCHANGED <<engine, pending, dirDocids, dirCfg, rd>>
  /\ UNCHANGED <<buildVars, searchVars, msVars, textVars, scratchVars>>

\* inputs of one, two and three documents (three leave more runs than the
\* fan-in), and one without an indexable document
PubCorpora == {c \in RunCorpora : Len(c) <= 3} \cup { << <<A>> >> }

InitPublish ==
  /\ InitBuildOn(PubCorpora)
  /\ variant = "level5"
  /\ SearchIdle
  /\ MultiIdle
  /\ TextIdle
  /\ ScratchIdle
  /\ engine \in {"SearchEngine", "se"}
  /\ pending = <<>>
  /\ dirBin = NoIndexFile
  /\ dirDocids = NoSidecar
  /\ dirCfg = DefaultCfg
  /\ ldPc = "idle"
  /\ ldRet = "none"
  /\ cur = 0
  /\ objs = IF engine = "se" THEN <<>> ELSE <<EmptyObj>>
  /\ g_index = 0
  /\ rd = <<>>

NextPublish ==
  \/ NextBuild
  \/ PubLoadStart
  \/ PubLoadDocids
  \/ PubLoadV2
  \/ PubLoadV1

SpecPublish == InitPublish /\ [][NextPublish]_vars

SpecSeeds == InitSeeds /\ [][NextSearch]_vars

(***************************************************************************)
(* Multi-index search: search_segments.cpp seg_search_many_json             *)
(*                                                                         *)
(* An aggregation key is the external doc id of a hit, or the fallback key *)
(* dir:did of a hit without one.                                           *)
(***************************************************************************)
LOCAL_K_HARD_MAX == 8
ND_DIRS_HARD_MAX == 2

clamp_topk(k) == IF k <= 0 THEN 0 ELSE IF k > TOPK_HARD_MAX THEN TOPK_HARD_MAX ELSE k

choose_local_k(k, n_dirs) ==
  LET lk == IF n_dirs <= 8 THEN k * 4
            ELSE IF n_dirs <= 64 THEN k * 3
            ELSE IF n_dirs <= 512 THEN k * 2
            ELSE k
  IN Min(Max(lk, k), LOCAL_K_HARD_MAX)

\* the index a build of the documents docs publishes
IndexOf(docs) ==
  LET recs == SortRecs(Concat([d \in 1..Len(docs) |->
                [i \in 1..Len(DocHashes(CapTokens(docs[d]))) |->
                   <<DocHashes(CapTokens(docs[d]))[i], d - 1>>]]))
      c == merge_runs_to_csr(<<[kind |-> 2, tid |-> 0, base |-> 0, recs |-> recs]>>,
                             <<0>>)
  IN [magic |-> "PLAG", version |-> 2, N_docs |-> Len(docs),
      docs_meta |-> [d \in 1..Len(docs) |-> Len(CapTokens(docs[d]))],
      uniq |-> c.uniq, off |-> c.off, did |-> c.did, post |-> <<>>, cut |-> 0]

\* the directories on disk: [bin, docids, cfg]; dB scores with its own w9

DirContent(d) ==
  CASE d = "dA" ->
         [bin |-> IndexOf(SearchDocs), cfg |-> DefaultCfg,
          docids |-> [ok |-> TRUE, ids |-> <<"X", "Y", "Z", "W">>]]
    [] d = "dB" ->
         [bin |-> IndexOf(<< <<A, B, B>>, <<A, A, B, B>>, <<B, A, A>> >>),
          cfg |-> [DefaultCfg EXCEPT !.w9 = 30],
          docids |-> [ok |-> TRUE, ids |-> <<"X", "V", "Y">>]]
    [] d = "dDup" ->
         [bin |-> IndexOf(SearchDocs), cfg |-> DefaultCfg,
          docids |-> [ok |-> TRUE, ids |-> <<"X", "Y", "X", "Z">>]]
    [] d = "dShort" ->
         [bin |-> IndexOf(SearchDocs), cfg |-> DefaultCfg,
          docids |-> [ok |-> TRUE, ids |-> <<"X", "">>]]
    [] OTHER ->
         [bin |-> [IndexOf(SearchDocs) EXCEPT !.magic = "none"],
          cfg |-> DefaultCfg,
          docids |-> [ok |-> TRUE, ids |-> <<"X", "Y", "Z", "W">>]]

\* SearchEngine::load(dir): the engine it leaves, loaded iff it returned true
load(dd) ==
  LET c == load_config_from_json("SearchEngine", dd.cfg)
  IN IF dd.docids.ok /\ Loadable("SearchEngine", dd.bin, c)
     THEN [Filled(EmptyObj, dd.bin, dd.docids.ids) EXCEPT !.cfg = c]
     ELSE NoEngine

\* std::to_string of a local doc id
to_string(n) ==
  CASE n = 0 -> "0" [] n = 1 -> "1" [] n = 2 -> "2" [] n = 3 -> "3"
    [] n = 4 -> "4" [] n = 5 -> "5" [] n = 6 -> "6" [] n = 7 -> "7"
    [] n = 8 -> "8" [] OTHER -> "9"

has_real(ids, h) == h.did < Len(ids) /\ ids[h.did + 1] # ""

\* the key of the local hit h of directory dir whose engine holds ids
key_of(dir, ids, h) ==
  IF has_real(ids, h) THEN ids[h.did + 1]
  ELSE dir \o ":" \o to_string(h.did)

\* one local hit h of the di-th directory enters the aggregation map
agg_hit(agg, dir, di, ids, h) ==
  LET key == key_of(dir, ids, h)
      fb == ~has_real(ids, h)
  IN IF key \notin DOMAIN agg
     THEN [x \in DOMAIN agg \cup {key} |->
             IF x = key
             THEN [best_index_dir |-> dir, num |-> h.num, den |-> h.den,
                   J |-> h.J, C |-> h.C, cand_hits |-> h.hits, found_in |-> 1,
                   last_seen_dir |-> di, is_fallback |-> fb, did |-> h.did]
             ELSE agg[x]]
     ELSE LET ah == agg[key]
              a1 == IF ah.last_seen_dir # di
                    THEN [ah EXCEPT !.found_in = @ + 1, !.last_seen_dir = di]
                    ELSE ah
              a2 == IF score_greater(h, a1)
                    THEN [a1 EXCEPT !.num = h.num, !.den = h.den, !.J = h.J,
                                    !.C = h.C, !.cand_hits = h.hits,
                                    !.best_index_dir = dir, !.is_fallback = fb,
                                    !.did = h.did]
                    ELSE IF h.hits > a1.cand_hits
                         THEN [a1 EXCEPT !.cand_hits = h.hits]
                         ELSE a1
          IN [agg EXCEPT ![key] = a2]

\* the loop over the local hits of one directory
RECURSIVE agg_hits(_, _, _, _, _)
agg_hits(agg, dir, di, ids, hs) ==
  IF hs = <<>> THEN agg
  ELSE agg_hits(agg_hit(agg, dir, di, ids, Head(hs)), dir, di, ids, Tail(hs))

\* the hit the output holds for the key x
hit_json(agg, x) ==
  [doc_id |-> IF agg[x].is_fallback THEN to_string(agg[x].did) ELSE x,
   doc_uid |-> x, best_index_dir |-> agg[x].best_index_dir,
   num |-> agg[x].num, den |-> agg[x].den, J |-> agg[x].J, C |-> agg[x].C,
   cand_hits |-> agg[x].cand_hits, found_in |-> agg[x].found_in]

\* the orders in which a loop over the unordered_map agg can visit its items
RECURSIVE Orders(_)
Orders(S) ==
  IF S = {} THEN {<<>>}
  ELSE UNION {{<<x>> \o r : r \in Orders(S \ {x})} : x \in S}

\* Variant of the heap test that never replaces the front of a full heap.
heap_replaces_Never(hi, front) == FALSE

\* global top-k: else if (hi.hit->score > heap.front().hit->score)
heap_replaces(hi, front) == score_greater(hi, front)

\* heap.front() under HeapCmp: an item no other item of the heap scores below
heap_fronts(heap) == {m \in heap : \A o \in heap : ~score_greater(m, o)}

\* the loop over agg: push while the heap holds fewer than k items, then
\* replace the front by an item that beats it; gives the heaps it can end with
RECURSIVE heap_feed(_, _, _)
heap_feed(heap, items, k) ==
  IF items = <<>> THEN {heap}
  ELSE LET hi == Head(items)
       IN IF Cardinality(heap) < k
          THEN heap_feed(heap \cup {hi}, Tail(items), k)
          ELSE UNION {IF heap_replaces(hi, m)
                      THEN heap_feed((heap \ {m}) \cup {hi}, Tail(items), k)
                      ELSE heap_feed(heap, Tail(items), k) : m \in heap_fronts(heap)}

\* global top-k: the min-heap of k items fed in the map's iteration order,
\* then std::sort by descending score
global_top_k(agg, k) ==
  LET S == {hit_json(agg, x) : x \in DOMAIN agg}
  IN UNION {UNION {sort_by(hp, "score_greater") : hp \in heap_feed({}, o, k)} :
              o \in Orders(S)}


\* what index_dir holds on disk at the moment of a load
DirOnDisk(d) ==
  IF d = "dBad" /\ repaired THEN DirContent("dA") ELSE DirContent(d)

NewEntry(d) ==
  [dir |-> d, loaded |-> FALSE, ok |-> FALSE, se |-> NoEngine, pins |-> 0,
   last_attempt_ms |-> 0, mu |-> 0]

MapSize(m) == Cardinality({d \in DirNames : m[d] # 0})

\* g_lru.push_front(key); e->lru_it = g_lru.begin(): a new node at the front,
\* to which the lru_it of the entry id now points
push_front_it(lru, key, id) ==
  <<[key |-> key, owner |-> id, cur |-> TRUE]>>
  \o [i \in 1..Len(lru) |->
        IF lru[i].owner = id THEN [lru[i] EXCEPT !.cur = FALSE] ELSE lru[i]]

\* g_lru.erase(e->lru_it): the node the lru_it of the entry id points to
\* leaves the list (an lru_it whose node is gone is an invalid iterator, and
\* the list is then left as it is)
erase_it(lru, id) == SelectSeq(lru, LAMBDA x : ~(x.owner = id /\ x.cur))

\* the loop of evict_if_needed_nolock over the map m and the list lru
RECURSIVE evict_loop(_, _, _, _, _, _)
evict_loop(es, m, lru, max_entries, attempts, max_attempts) ==
  IF ~(MapSize(m) > max_entries /\ lru # <<>> /\ attempts < max_attempts)
  THEN [map |-> m, lru |-> lru]
  ELSE LET victim == lru[Len(lru)].key
           rest == SubSeq(lru, 1, Len(lru) - 1)
       IN IF m[victim] = 0
          THEN evict_loop(es, m, rest, max_entries, attempts + 1, max_attempts)
          ELSE IF es[m[victim]].pins = 0
          THEN evict_loop(es, [m EXCEPT ![victim] = 0], rest, max_entries,
                          attempts + 1, max_attempts)
          ELSE evict_loop(es, m, push_front_it(rest, victim, m[victim]), max_entries,
                          attempts + 1, max_attempts)

evict_if_needed_nolock(es, m, lru, max_entries) ==
  IF max_entries <= 0 \/ MapSize(m) <= max_entries
  THEN [map |-> m, lru |-> lru]
  ELSE evict_loop(es, m, lru, max_entries, 0, Len(lru))

\* get_or_create_entry: [entry, entries, map, lru] after the call
get_or_create_entry(d, max_entries) ==
  IF g_map[d] # 0
  THEN [entry |-> g_map[d], entries |-> entries, map |-> g_map, lru |-> g_lru]
  ELSE LET es == Append(entries, NewEntry(d))
           ev == evict_if_needed_nolock(es, [g_map EXCEPT ![d] = Len(es)],
                                        push_front_it(g_lru, d, Len(es)), max_entries)
       IN [entry |-> Len(es), entries |-> es, map |-> ev.map, lru |-> ev.lru]

\* Variant of touch_lru_nolock that pushes the key without erasing the old
\* node.
touch_lru_nolock_NoErase(lru, dir, id) == push_front_it(lru, dir, id)

\* touch_lru_nolock: the node lru_it points to is erased, the key is pushed
\* to the front and lru_it set to the new node
touch_lru_nolock(lru, dir, id) == push_front_it(erase_it(lru, id), dir, id)

\* touch_after_success: the list after the call by the holder of entry id
touch_after_success(dir, id) ==
  IF g_map[dir] # 0 /\ g_map[dir] = id THEN touch_lru_nolock(g_lru, dir, id)
  ELSE g_lru

\* whether ensure_loaded_with_retry runs a load of the entry e at time t
load_due(e, t, retry) ==
  IF e.loaded
  THEN IF e.ok THEN FALSE
       ELSE IF retry = 0 THEN FALSE
       ELSE IF t < e.last_attempt_ms THEN FALSE
       ELSE IF t - e.last_attempt_ms < retry THEN FALSE
       ELSE TRUE
  ELSE TRUE

\* ensure_loaded_with_retry: the entry after the call
ensure_loaded_with_retry(e, t, retry) ==
  IF ~load_due(e, t, retry) THEN e
  ELSE LET se == load(DirOnDisk(e.dir))
       IN [e EXCEPT !.last_attempt_ms = t, !.loaded = TRUE,
                    !.ok = se.loaded, !.se = se]

\* a failing directory ends the call with an error
dir_failed_Abort(c) ==
  [c EXCEPT !.pc = "done", !.ret = make_error_json("exception")]

\* what happens to the call c when the directory at di failed
dir_failed(c) == [c EXCEPT !.dirs_failed = @ + 1, !.di = @ + 1, !.pc = "loop"]

\* the argument checks and the set-up before the loop
MsBegin(c) ==
  /\ ms[c].pc = "start"
  /\ LET n_dirs == Len(ms[c].dirs)
         k == clamp_topk(ms[c].top_k)
         bad == IF ms[c].null_args \/ n_dirs <= 0 THEN "bad_request"
                ELSE IF n_dirs > ND_DIRS_HARD_MAX THEN "bad_request"
                ELSE IF k <= 0 THEN "bad_request"
                ELSE IF ms[c].query = <<>> THEN "bad_request"
                ELSE ""
     IN ms' = [ms EXCEPT ![c] =
                 IF bad # ""
                 THEN [@ EXCEPT !.pc = "done", !.ret = make_error_json(bad)]
                 ELSE [@ EXCEPT !.pc = "loop", !.k = k,
                                !.local_k = choose_local_k(k, n_dirs)]]
  /\ UNCHANGED <<recency, cache_max, retry_ms, now, repaired, entries, g_map, g_lru,
                 calls, ensured>>
  /\ UNCHANGED <<buildVars, serveVars, searchVars, textVars, scratchVars>>

\* the head of one iteration: the null / empty check and get_or_create_entry
MsGetEntry(c) ==
  /\ ms[c].pc = "loop"
  /\ ms[c].di < Len(ms[c].dirs)
  /\ LET d == ms[c].dirs[ms[c].di + 1]
     IN IF d = NullDir \/ d = ""
        THEN /\ ms' = [ms EXCEPT ![c] = dir_failed(@)]
             /\ UNCHANGED <<entries, g_map, g_lru, recency>>
        ELSE LET g == get_or_create_entry(d, cache_max)
             IN /\ entries' = g.entries
                /\ g_map' = g.map
                /\ g_lru' = g.lru
                /\ recency' = SelectSeq(IF g_map[d] # 0 THEN recency ELSE <<d>> \o recency,
                                     LAMBDA x : g.map[x] # 0)
                /\ ms' = [ms EXCEPT ![c].entry = g.entry, ![c].pc = "ensure"]
  /\ UNCHANGED <<cache_max, retry_ms, now, repaired, calls, ensured>>
  /\ UNCHANGED <<buildVars, serveVars, searchVars, textVars, scratchVars>>

\* ensure_loaded_with_retry under the entry's mutex
MsEnsureLoaded(c) ==
  /\ ms[c].pc = "ensure"
  /\ LET e == entries[ms[c].entry]
         e2 == ensure_loaded_with_retry(e, now, retry_ms)
         tried == load_due(e, now, retry_ms)
     IN /\ entries' = [entries EXCEPT ![ms[c].entry] = e2]
        /\ ensured' = [failed |-> ensured.fails[e.dir] >= 0,
                       due |-> now >= ensured.fails[e.dir] + retry_ms,
                       tried |-> tried,
                       fails |-> IF tried
                                 THEN [ensured.fails EXCEPT ![e.dir] =
                                         IF e2.ok THEN -1 ELSE now]
                                 ELSE ensured.fails]
  /\ ms' = [ms EXCEPT ![c].pc = "check"]
  /\ UNCHANGED <<recency, cache_max, retry_ms, now, repaired, g_map, g_lru, calls>>
  /\ UNCHANGED <<buildVars, serveVars, searchVars, textVars, scratchVars>>

\* ensure_loaded_with_retry up to the call of SearchEngine::load: the entry
\* with its mutex held by the caller c
ensure_begin(e, t, c) ==
  [e EXCEPT !.mu = c, !.last_attempt_ms = t, !.loaded = TRUE, !.ok = FALSE,
            !.se = NoEngine]

\* ensure_loaded_with_retry from the return of SearchEngine::load to the
\* release of the entry's mutex
ensure_end(e) ==
  LET se == load(DirOnDisk(e.dir))
  IN [e EXCEPT !.ok = se.loaded, !.se = IF se.loaded THEN se ELSE NoEngine,
               !.mu = 0]

\* ensure_loaded_with_retry, first part: the caller takes the entry's mutex
\* and either returns at once or starts a load, which other threads can
\* overlap
MsLockEntry(c) ==
  /\ ms[c].pc = "ensure"
  /\ entries[ms[c].entry].mu = 0
  /\ LET e == entries[ms[c].entry]
         tried == load_due(e, now, retry_ms)
     IN /\ entries' = IF tried THEN [entries EXCEPT ![ms[c].entry] = ensure_begin(e, now, c)]
                       ELSE entries
        /\ ms' = [ms EXCEPT ![c].pc = IF tried THEN "loading" ELSE "check"]
        /\ ensured' = [failed |-> ensured.fails[e.dir] >= 0,
                       due |-> now >= ensured.fails[e.dir] + retry_ms,
                       tried |-> tried,
                       fails |-> ensured.fails]
  /\ UNCHANGED <<recency, cache_max, retry_ms, now, repaired, g_map, g_lru, calls>>
  /\ UNCHANGED <<buildVars, serveVars, searchVars, textVars, scratchVars>>

\* ensure_loaded_with_retry, second part: the load returns and the mutex is
\* released
MsLoadDone(c) ==
  /\ ms[c].pc = "loading"
  /\ LET e == entries[ms[c].entry]
         e2 == ensure_end(e)
     IN /\ entries' = [entries EXCEPT ![ms[c].entry] = e2]
        /\ ensured' = [ensured EXCEPT !.fails[e.dir] =
                         IF e2.ok THEN -1 ELSE e.last_attempt_ms]
  /\ ms' = [ms EXCEPT ![c].pc = "check"]
  /\ UNCHANGED <<recency, cache_max, retry_ms, now, repaired, g_map, g_lru, calls>>
  /\ UNCHANGED <<buildVars, serveVars, searchVars, textVars, scratchVars>>

\* the check of ok / se under the entry's mutex, taking the engine
MsCheck(c) ==
  /\ ms[c].pc = "check"
  /\ entries[ms[c].entry].mu = 0
  /\ LET e == entries[ms[c].entry]
     IN ms' = [ms EXCEPT ![c] =
                 IF ~e.ok \/ e.se = NoEngine THEN dir_failed(@)
                 ELSE [@ EXCEPT !.se = e.se, !.pc = "pin"]]
  /\ UNCHANGED <<recency, cache_max, retry_ms, now, repaired, entries, g_map, g_lru,
                 calls, ensured>>
  /\ UNCHANGED <<buildVars, serveVars, searchVars, textVars, scratchVars>>

\* PinGuard's constructor
MsPin(c) ==
  /\ ms[c].pc = "pin"
  /\ entries' = [entries EXCEPT ![ms[c].entry].pins = @ + 1]
  /\ ms' = [ms EXCEPT ![c].pc = "touch"]
  /\ UNCHANGED <<recency, cache_max, retry_ms, now, repaired, g_map, g_lru, calls,
                 ensured>>
  /\ UNCHANGED <<buildVars, serveVars, searchVars, textVars, scratchVars>>

\* touch_after_success and ++dirs_ok
MsTouch(c) ==
  /\ ms[c].pc = "touch"
  /\ g_lru' = touch_after_success(ms[c].dirs[ms[c].di + 1], ms[c].entry)
  /\ recency' = IF g_map[ms[c].dirs[ms[c].di + 1]] = ms[c].entry
             THEN <<ms[c].dirs[ms[c].di + 1]>>
                  \o SelectSeq(recency, LAMBDA x : x # ms[c].dirs[ms[c].di + 1])
             ELSE recency
  /\ ms' = [ms EXCEPT ![c].dirs_ok = @ + 1, ![c].pc = "search"]
  /\ UNCHANGED <<cache_max, retry_ms, now, repaired, entries, g_map, calls,
                 ensured>>
  /\ UNCHANGED <<buildVars, serveVars, searchVars, textVars, scratchVars>>

\* search_text on the borrowed engine, the aggregation of its hits, and
\* PinGuard's destructor at the end of the iteration; locals records the
\* local hits the call has aggregated, each with its key and directory
MsSearch(c) ==
  /\ ms[c].pc = "search"
  /\ \E hs \in search_text(ms[c].se, ms[c].query, ms[c].local_k) :
       ms' = [ms EXCEPT ![c].agg = agg_hits(@, ms[c].dirs[ms[c].di + 1],
                                            ms[c].di, ms[c].se.doc_ids, hs),
                        ![c].locals = @ \cup
                          {[key |-> key_of(ms[c].dirs[ms[c].di + 1],
                                           ms[c].se.doc_ids, hs[i]),
                            dir |-> ms[c].dirs[ms[c].di + 1],
                            di |-> ms[c].di, h |-> hs[i]] : i \in 1..Len(hs)},
                        ![c].di = @ + 1,
                        ![c].entry = 0,
                        ![c].se = NoEngine,
                        ![c].pc = "loop"]
  /\ entries' = [entries EXCEPT ![ms[c].entry].pins = @ - 1]
  /\ UNCHANGED <<recency, cache_max, retry_ms, now, repaired, g_map, g_lru, calls,
                 ensured>>
  /\ UNCHANGED <<buildVars, serveVars, searchVars, textVars, scratchVars>>

\* the global top-k and the output after the loop
MsFinish(c) ==
  /\ ms[c].pc = "loop"
  /\ ms[c].di = Len(ms[c].dirs)
  /\ \E hits \in global_top_k(ms[c].agg, ms[c].k) :
       ms' = [ms EXCEPT ![c].pc = "done",
                        ![c].ret =
                          [ok |-> TRUE, error |-> "", top_k |-> ms[c].k,
                           local_k |-> ms[c].local_k,
                           dirs_ok |-> ms[c].dirs_ok,
                           dirs_failed |-> ms[c].dirs_failed,
                           unique_docs_considered |->
                             Cardinality(DOMAIN ms[c].agg),
                           hits |-> hits, count |-> Len(hits)]]
  /\ UNCHANGED <<recency, cache_max, retry_ms, now, repaired, entries, g_map, g_lru,
                 calls, ensured>>
  /\ UNCHANGED <<buildVars, serveVars, searchVars, textVars, scratchVars>>

\* time passes
Tick ==
  /\ now < MaxTime
  /\ now' = now + 1
  /\ UNCHANGED <<recency, cache_max, retry_ms, repaired, entries, g_map, g_lru, ms,
                 calls, ensured>>
  /\ UNCHANGED <<buildVars, serveVars, searchVars, textVars, scratchVars>>

\* the broken directory is rebuilt on disk
Repair ==
  /\ ~repaired
  /\ repaired' = TRUE
  /\ UNCHANGED <<recency, cache_max, retry_ms, now, entries, g_map, g_lru, ms, calls,
                 ensured>>
  /\ UNCHANGED <<buildVars, serveVars, searchVars, textVars, scratchVars>>


(***************************************************************************)
(* One multi-index search on an empty cache                                 *)
(***************************************************************************)
\* the index_dirs arrays of a call: every array of at most ND_DIRS_HARD_MAX
\* entries, and one array that is too long
DirLists ==
  UNION {[1..n -> DirNames \cup {"", NullDir}] : n \in 0..ND_DIRS_HARD_MAX}
  \cup {[i \in 1..(ND_DIRS_HARD_MAX + 1) |-> "dA"]}

MultiQueries == { <<>>, <<A>>, <<A, B>>, <<A, A, B>>, <<A, B, B>>, <<B, B, A, A>> }

InitMulti ==
  /\ BuildIdle
  /\ TextIdle
  /\ ScratchIdle
  /\ ServeIdle
  /\ SearchIdle
  /\ cache_max \in {0, 1, 2}
  /\ retry_ms \in {0, 2}
  /\ now = 0
  /\ repaired = FALSE
  /\ entries = <<>>
  /\ g_map = [d \in DirNames |-> 0]
  /\ g_lru = <<>>
  /\ \E q \in MultiQueries : \E nul \in BOOLEAN : \E tk \in 0..(TOPK_HARD_MAX + 1) :
       \E ds \in DirLists :
         ms = [c \in Callers |-> IF c = 1 THEN NewCall(q, nul, tk, ds) ELSE NoCall]
  /\ calls = 1
  /\ recency = <<>>
  /\ ensured = NoEnsure

NextMulti ==
  \E c \in Callers :
    \/ MsBegin(c)
    \/ MsGetEntry(c)
    \/ MsEnsureLoaded(c)
    \/ MsCheck(c)
    \/ MsPin(c)
    \/ MsTouch(c)
    \/ MsSearch(c)
    \/ MsFinish(c)

SpecMulti == InitMulti /\ [][NextMulti]_vars

(***************************************************************************)
(* Concurrent multi-index searches on a cache of one entry                  *)
(***************************************************************************)
\* the calls the callers make
CacheDirLists == { <<"dA">>, <<"dBad">> }

\* a caller whose previous call has returned starts the next one, on one of
\* the dirs arrays of lists
MsCallOn(c, lists) ==
  /\ ms[c].pc = "done"
  /\ calls < MaxCalls
  /\ calls' = calls + 1
  /\ \E ds \in lists : ms' = [ms EXCEPT ![c] = NewCall(<<A, A>>, FALSE, 1, ds)]
  /\ UNCHANGED <<recency, cache_max, retry_ms, now, repaired, entries, g_map,
                 g_lru, ensured>>
  /\ UNCHANGED <<buildVars, serveVars, searchVars, textVars, scratchVars>>

MsCall(c) == MsCallOn(c, CacheDirLists)

InitCache ==
  /\ BuildIdle
  /\ TextIdle
  /\ ScratchIdle
  /\ ServeIdle
  /\ SearchIdle
  /\ cache_max = 1
  /\ retry_ms \in {0, MaxTime}
  /\ now = 0
  /\ repaired = FALSE
  /\ entries = <<>>
  /\ g_map = [d \in DirNames |-> 0]
  /\ g_lru = <<>>
  /\ ms = [c \in Callers |-> [NoCall EXCEPT !.pc = "done"]]
  /\ calls = 0
  /\ recency = <<>>
  /\ ensured = NoEnsure

NextCache ==
  \/ \E c \in Callers :
       \/ MsCall(c)
       \/ MsBegin(c)
       \/ MsGetEntry(c)
       \/ MsEnsureLoaded(c)
       \/ MsCheck(c)
       \/ MsPin(c)
       \/ MsTouch(c)
       \/ MsSearch(c)
       \/ MsFinish(c)
  \/ Tick
  \/ Repair

SpecCache == InitCache /\ [][NextCache]_vars

(***************************************************************************)
(* Concurrent multi-index searches on caches of zero to two entries         *)
(***************************************************************************)
LruDirLists == { <<"dA">>, <<"dB", "dDup">>, <<"dShort">> }

MsCallLru(c) == MsCallOn(c, LruDirLists)

InitLru ==
  /\ BuildIdle
  /\ TextIdle
  /\ ScratchIdle
  /\ ServeIdle
  /\ SearchIdle
  /\ cache_max \in {0, 2}
  /\ retry_ms = 0
  /\ now = 0
  /\ repaired = FALSE
  /\ entries = <<>>
  /\ g_map = [d \in DirNames |-> 0]
  /\ g_lru = <<>>
  /\ ms = [c \in Callers |-> [NoCall EXCEPT !.pc = "done"]]
  /\ calls = 0
  /\ recency = <<>>
  /\ ensured = NoEnsure

NextLru ==
  \E c \in Callers :
    \/ MsCallLru(c)
    \/ MsBegin(c)
    \/ MsGetEntry(c)
    \/ MsEnsureLoaded(c)
    \/ MsCheck(c)
    \/ MsPin(c)
    \/ MsTouch(c)
    \/ MsSearch(c)
    \/ MsFinish(c)

SpecLru == InitLru /\ [][NextLru]_vars

(***************************************************************************)
(* Concurrent multi-index searches with loads that take time                *)
(***************************************************************************)
RaceDirLists == { <<"dA">>, <<"dB", "dA">> }

InitRace ==
  /\ BuildIdle
  /\ TextIdle
  /\ ScratchIdle
  /\ ServeIdle
  /\ SearchIdle
  /\ cache_max \in {1, 2}
  /\ retry_ms = 0
  /\ now = 0
  /\ repaired = FALSE
  /\ entries = <<>>
  /\ g_map = [d \in DirNames |-> 0]
  /\ g_lru = <<>>
  /\ ms = [c \in Callers |-> [NoCall EXCEPT !.pc = "done"]]
  /\ calls = 0
  /\ recency = <<>>
  /\ ensured = NoEnsure

NextRace ==
  \E c \in Callers :
    \/ MsCallOn(c, RaceDirLists)
    \/ MsBegin(c)
    \/ MsGetEntry(c)
    \/ MsLockEntry(c)
    \/ MsLoadDone(c)
    \/ MsCheck(c)
    \/ MsPin(c)
    \/ MsTouch(c)
    \/ MsSearch(c)
    \/ MsFinish(c)

SpecRace == InitRace /\ [][NextRace]_vars

(***************************************************************************)
(* Properties of the builder                                                *)
(***************************************************************************)
\* index_native.bin holds the index this build published
Published == fsBin.build = "new"

\* the build has published the index and, for level5, its sidecar
PublishedAll == Published /\ phase \in {"published", "exited"} /\ exitCode \in {-1, 0}

\* posting slice of the i-th unique hash (i in 1..U)
Slice(ix, i) == SubSeq(ix.did, ix.off[i] + 1, ix.off[i + 1])

\* the external doc ids that go with the published index
PublishedDocIds == IF variant = "level5" THEN fsDocids.ids ELSE fsBin.doc_ids

\* number of posting slices of ix that contain the doc id g
SlicesWith(ix, g) ==
  Cardinality({i \in 1..Len(ix.uniq) : g \in Range(Slice(ix, i))})

\* the distinct shingle hashes of a text: one K-token window per token position
TextHashes(toks) ==
  {hash_shingle_tokens_spans(toks, pos, K) : pos \in 0..(Len(toks) - K)}

\* C1: every published index_native.bin has well-formed CSR rows: uniq is
\* strictly ascending, off has |uniq|+1 entries, off[0] = 0, off is monotone
\* and its last entry is D, the number of did entries.
C1_CsrRowStructure ==
  Published =>
    /\ StrictAsc(fsBin.uniq)
    /\ Len(fsBin.off) = Len(fsBin.uniq) + 1
    /\ fsBin.off[1] = 0
    /\ \A i \in 1..Len(fsBin.uniq) : fsBin.off[i] <= fsBin.off[i + 1]
    /\ fsBin.off[Len(fsBin.off)] = Len(fsBin.did)

\* a published index with several rows, one of them with several postings
C1_Witness ==
  /\ Published
  /\ Len(fsBin.uniq) >= 2
  /\ \E i \in 1..Len(fsBin.uniq) : fsBin.off[i + 1] - fsBin.off[i] >= 2

\* C2: in every published index each posting slice is strictly ascending and
\* every entry is below N_docs, for any number of workers and run files,
\* multi-pass merges included.
C2_SlicesAscendingBounded ==
  Published =>
    \A i \in 1..Len(fsBin.uniq) :
      /\ StrictAsc(Slice(fsBin, i))
      /\ \A k \in 1..Len(Slice(fsBin, i)) : Slice(fsBin, i)[k] < fsBin.N_docs

\* an index published after a reduction pass over runs of two workers, with
\* a slice that holds documents of both workers
C2_Witness ==
  /\ Published
  /\ pass >= 1
  /\ numWorkers = 2
  /\ \E i \in 1..Len(fsBin.uniq) :
       \E k \in 1..Len(Slice(fsBin, i)) :
         /\ k >= 2
         /\ Slice(fsBin, i)[1] < bases[2]
         /\ Slice(fsBin, i)[k] >= bases[2]

\* C3 (as claimed): every document indexed by worker t with local id d has
\* all its postings under the global id base[t]+d, and doc_ids / docs_meta at
\* base[t]+d are its external id and metadata.
C3_GlobalIdRemap ==
  PublishedAll =>
    \A t \in Workers :
      \A d \in 0..(Len(wk[t].doc_ids) - 1) :
        LET line == wk[t].doc_ids[d + 1]
            g == bases[t + 1] + d
        IN /\ \A h \in Range(DocHashes(CapTokens(corpus[line]))) :
                \E i \in 1..Len(fsBin.uniq) :
                  fsBin.uniq[i] = h /\ g \in Range(Slice(fsBin, i))
           /\ PublishedDocIds[g + 1] = line
           /\ fsBin.docs_meta[g + 1] = wk[t].docs_meta[d + 1]

\* C4 (as claimed): at every instant of a rebuild, and after it ends in any
\* way, index_native.bin is the complete previous or the complete new index,
\* and a build that exits non-zero leaves the previous index in place.
C4_AtomicPublish ==
  /\ fsBin = PrevIndex \/ (tmpBin.build = "new" /\ fsBin = tmpBin)
  /\ (exitCode \notin {-1, 0} => fsBin = PrevIndex)

\* C8 (as claimed): for every indexed document the number of posting slices
\* that contain it equals the number of distinct shingle hashes of its text.
C8_SlicesPerDoc ==
  PublishedAll =>
    \A g \in 0..(fsBin.N_docs - 1) :
      SlicesWith(fsBin, g) = Cardinality(TextHashes(corpus[PublishedDocIds[g + 1]]))

(***************************************************************************)
(* Properties of the loaders and of the index swap                          *)
(***************************************************************************)
\* the CSR invariants of a version 2 file, everywhere in the file
CsrOk(f) ==
  /\ StrictAsc(f.uniq)
  /\ \A i \in 1..Len(f.uniq) : f.off[i] <= f.off[i + 1]
  /\ f.off[Len(f.off)] = Len(f.did)
  /\ \A p \in 1..Len(f.did) : f.did[p] < f.N_docs
  /\ \A i \in 1..Len(f.uniq) : StrictAsc(Slice(f, i))

\* wrong magic, unsupported version, at least one byte missing, or a CSR
\* invariant broken somewhere
Offending(f) ==
  \/ f.magic # "PLAG"
  \/ f.version \notin {1, 2}
  \/ f.cut >= 1
  \/ f.version = 2 /\ ~CsrOk(f)

\* C5: a se_search_text call that runs while se_load_index installs indexes
\* works on an index that is completely loaded and validated, and that index
\* stays mapped until the call returns; what g_index points to is always such
\* an index.
C5_SwapSafe ==
  /\ g_index # 0 => objs[g_index].alive /\ objs[g_index].loaded
  /\ \A r \in Readers :
       rd[r].pc # "idle" =>
         /\ objs[rd[r].ref].alive
         /\ objs[rd[r].ref].loaded
         /\ Len(objs[rd[r].ref].off) = Len(objs[rd[r].ref].uniq) + 1

\* a call still works on the index it obtained, as its last owner, after a
\* newer index was installed
C5_Witness ==
  \E r \in Readers :
    /\ rd[r].pc = "scored"
    /\ g_index # 0
    /\ rd[r].ref # g_index
    /\ objs[rd[r].ref].refs = 1
    /\ objs[g_index].file # objs[rd[r].ref].file

\* C6 (as claimed): a load of an index_native.bin with a wrong magic, an
\* unsupported version, a missing byte or a CSR violation anywhere returns
\* failure, and the file does not become the searchable index.
C6_LoadRefusesBadFile ==
  (ldPc = "done" /\ Offending(dirBin)) =>
    (ldRet = "fail" /\ Installed.file # dirBin)

\* C7 (as claimed): a load fails when the sidecar has more or fewer strings
\* than N_docs, so after a successful load doc_ids has N_docs entries.
C7_DocidsLengthChecked ==
  ldPc = "done" =>
    /\ (dirDocids.ok /\ Len(dirDocids.ids) # dirBin.N_docs) => ldRet = "fail"
    /\ ldRet = "ok" => Len(Installed.doc_ids) = Installed.N_docs

(***************************************************************************)
(* Properties of the search                                                 *)
(***************************************************************************)
\* the postings of the hash h in the index x, as a set of doc ids
PostingsOf(x, h) ==
  LET p == get_postings(x, h)
  IN IF p.found THEN Range(SubSeq(x.did, p.L + 1, p.R)) ELSE {}

\* the query hashes whose posting list is longer than max_df_for_seed
OverDf(x) == {h \in Range(q_hashes) : Cardinality(PostingsOf(x, h)) > x.cfg.max_df_for_seed}

\* C9: a query with fewer than the configured w_min_query tokens returns zero
\* hits, whatever value of w_min_query index_config.json configures.
C9_ShortQueryNoHits ==
  (sPc = "done" /\ objs # <<>> /\ objs[1].loaded /\ Len(query) < objs[1].cfg.w_min_query)
    => out = <<>>

\* C10: a query hash with df > max_df_for_seed is never a seed, and the
\* intersection pass still merges it: inter of a candidate counts the terms
\* kept and the over-df hashes whose posting list holds the candidate.
C10_HighDfStillIntersected ==
  sPc = "merged" =>
    /\ \A i \in 1..Len(seeds) : seeds[i].h \notin OverDf(Idx)
    /\ \A j \in 1..Len(cand) :
         inter[j] = Cardinality({t \in Range(qterms) : cand[j].did \in PostingsOf(Idx, t.h)})
                    + Cardinality({h \in OverDf(Idx) : cand[j].did \in PostingsOf(Idx, h)})

\* |Q|: the distinct shingle hashes of the query, cut to max_q_uniq9
QSize == Min(Len(q_hashes), Idx.cfg.max_q_uniq9)

\* T(d) = tok_len(d) - K + 1
TSize(did) == tok_len_at(Idx, did) - K + 1

\* C11: for every returned hit C = inter / |Q| and J = inter / (|Q| + T(d) -
\* inter), |Q| being the number of distinct shingle hashes of the query (those
\* the index does not hold included), reduced only by max_q_uniq9.
C11_ScoresAgainstFullQ ==
  sPc = "done" =>
    \A i \in 1..Len(out) :
      /\ out[i].C[1] * QSize = out[i].inter * out[i].C[2]
      /\ out[i].J[1] * (QSize + TSize(out[i].did) - out[i].inter)
           = out[i].inter * out[i].J[2]

\* C12: on a successfully loaded index every returned hit has a local doc id
\* below N_docs, J <= 1, C <= 1 and a score in [0, max(w9, 1)].
C12_HitsInRange ==
  sPc = "done" =>
    \A i \in 1..Len(out) :
      /\ out[i].did < Idx.N_docs
      /\ out[i].J[1] <= out[i].J[2]
      /\ out[i].C[1] <= out[i].C[2]
      /\ out[i].num >= 0
      /\ out[i].num <= 100 * Max(clamp01(Idx.cfg.w9), 100) * out[i].den

\* C13: a single-index search returns at most min(top_k, TOPK_HARD_MAX) hits
\* for every top_k >= 1, and se_search_text at most max_hits as well.
C13_AtMostTopK ==
  (sPc = "done" /\ top_k >= 1) =>
    /\ Len(out) <= Min(top_k, TOPK_HARD_MAX)
    /\ engine = "se" => Len(out) <= max_hits

\* the candidates the scoring loop of the finished call gave a score
Scored == scored_of(Idx, Idx.cfg, cand, inter, q_used)

\* C14: the hits returned are in non-increasing score order, and no scored
\* candidate that was left out has a strictly higher score than a returned hit.
C14_BestFirst ==
  (sPc = "done" /\ out # <<>>) =>
    /\ \A i \in 1..Len(out) : \A j \in (i + 1)..Len(out) :
         ~score_greater(out[j], out[i])
    /\ \A c \in Scored \ Range(out) : \A i \in 1..Len(out) :
         ~score_greater(c, out[i])

\* a call that returned two hits of different scores and left a scored
\* candidate out
C14_Witness ==
  /\ sPc = "done"
  /\ Len(out) = 2
  /\ score_greater(out[1], out[2])
  /\ Scored \ Range(out) # {}


(***************************************************************************)
(* Properties of the multi-index search                                     *)
(***************************************************************************)
\* the engine the cache has loaded for the directory d (NoEngine: none)
LoadedFor(d) ==
  LET S == {i \in 1..Len(entries) : entries[i].dir = d /\ entries[i].ok}
  IN IF S = {} THEN NoEngine ELSE entries[CHOOSE i \in S : TRUE].se

\* the calls that have returned
Returned == {c \in Callers : ms[c].pc = "done"}

\* the (external doc id, score) pairs of the hits a direct search_text returns
DirectPairs(x, hs) ==
  {<<x.doc_ids[hs[i].did + 1], hs[i].num, hs[i].den>> : i \in 1..Len(hs)}

\* the (doc_id, score) pairs of the hits a multi-index search returns
MultiPairs(r) == {<<r.hits[i].doc_id, r.hits[i].num, r.hits[i].den>> : i \in 1..Len(r.hits)}

\* the directories whose documents all carry an external doc id
FullIdDirs == {"dA", "dB", "dDup"}

\* the call c names one such directory and asks for at least one hit
SingleDir(c) ==
  /\ ~ms[c].null_args
  /\ ms[c].top_k >= 1
  /\ Len(ms[c].dirs) = 1
  /\ ms[c].dirs[1] \in FullIdDirs

\* C15: a multi-index search over a single directory returns the same set of
\* external doc ids, with the same scores, as some search_text(query, K) run
\* directly on the index of that directory
C15_SingleDirEqualsDirect ==
  \A c \in Returned :
    SingleDir(c) =>
      \E hs \in search_text(LoadedFor(ms[c].dirs[1]), ms[c].query, ms[c].top_k) :
        MultiPairs(ms[c].ret) = DirectPairs(LoadedFor(ms[c].dirs[1]), hs)


\* the calls that have returned a result
Served == {c \in Returned : ms[c].ret.ok}

\* the local hits the call c aggregated under the key x
LocalsOf(c, x) == {l \in ms[c].locals : l.key = x}

same_score(a, b) == a.num * b.den = b.num * a.den

\* l is a best local hit of the set L: no hit of L has a higher score, and
\* none of the same score has more cand_hits
BestOf(l, L) ==
  \A m \in L : /\ ~score_greater(m.h, l.h)
               /\ same_score(m.h, l.h) => m.h.hits <= l.h.hits

\* C16: every key is reported once, with the score, best_index_dir, j9, c9
\* and cand_hits of one best local hit of that key
C16_BestLocalHitReported ==
  \A c \in Served :
    LET hits == ms[c].ret.hits
    IN /\ \A i, j \in 1..Len(hits) : hits[i].doc_uid = hits[j].doc_uid => i = j
       /\ \A i \in 1..Len(hits) :
            \E l \in LocalsOf(c, hits[i].doc_uid) :
              /\ BestOf(l, LocalsOf(c, hits[i].doc_uid))
              /\ same_score(hits[i], l.h)
              /\ hits[i].best_index_dir = l.dir
              /\ hits[i].J = l.h.J
              /\ hits[i].C = l.h.C
              /\ hits[i].cand_hits = l.h.hits


\* C17: found_in of a reported key is the number of distinct directories
\* whose local hits held that key
C17_FoundInCountsDirs ==
  \A c \in Served :
    \A i \in 1..Len(ms[c].ret.hits) :
      ms[c].ret.hits[i].found_in =
        Cardinality({l.dir : l \in LocalsOf(c, ms[c].ret.hits[i].doc_uid)})


\* the arguments pass the checks at the head of seg_search_many_json
ValidArgs(c) ==
  /\ ~ms[c].null_args
  /\ Len(ms[c].dirs) \in 1..ND_DIRS_HARD_MAX
  /\ ms[c].top_k >= 1
  /\ ms[c].query # <<>>

\* the entry d of a dirs list names a directory whose index loaded
DirServes(d) == d \notin {"", NullDir} /\ LoadedFor(d).loaded

\* the aggregation maps the first i entries of ds can produce when only the
\* entries that serve contribute local hits
RECURSIVE ServingAggs(_, _, _, _)
ServingAggs(ds, q, lk, i) ==
  IF i = 0 THEN {<<>>}
  ELSE IF ~DirServes(ds[i]) THEN ServingAggs(ds, q, lk, i - 1)
  ELSE {agg_hits(a, ds[i], i - 1, LoadedFor(ds[i]).doc_ids, hs) :
          a \in ServingAggs(ds, q, lk, i - 1),
          hs \in search_text(LoadedFor(ds[i]), q, lk)}

\* C18: a call with valid arguments returns ok:true whatever entries of dirs
\* are null, empty or fail to load; dirs_ok and dirs_failed count the serving
\* and the failing entries, and the hits are those of the serving entries alone
C18_FailedDirsCounted ==
  \A c \in Returned :
    ValidArgs(c) =>
      LET r == ms[c].ret
          ds == ms[c].dirs
      IN /\ r.ok
         /\ r.dirs_ok + r.dirs_failed = Len(ds)
         /\ r.dirs_failed = Cardinality({i \in 1..Len(ds) : ~DirServes(ds[i])})
         /\ \E a \in ServingAggs(ds, ms[c].query,
                               choose_local_k(clamp_topk(ms[c].top_k), Len(ds)),
                               Len(ds)) :
              r.hits \in global_top_k(a, clamp_topk(ms[c].top_k))

\* a call over a failing and a serving directory has returned hits
C18_Witness ==
  \E c \in Served :
    /\ ms[c].ret.dirs_failed >= 1
    /\ ms[c].ret.dirs_ok >= 1
    /\ "dBad" \in Range(ms[c].dirs)
    /\ Len(ms[c].ret.hits) >= 1


\* the directory the call c is working on
DirAt(c) == ms[c].dirs[ms[c].di + 1]

\* the call c holds the engine it took from its cache entry
Borrowing(c) == ms[c].pc \in {"pin", "touch", "search"}

\* C19: no step removes from the cache the entry whose engine a call is
\* borrowing
C19_NoEvictionWhileBorrowed ==
  [][\A c \in Callers :
       (Borrowing(c) /\ g_map[DirAt(c)] = ms[c].entry)
         => g_map'[DirAt(c)] = ms[c].entry]_vars

\* C20: a call that reaches a directory whose last load failed at time t
\* attempts a load exactly when it arrives at or after t + retry_ms
C20_RetryAfterBackoff ==
  ensured.failed => (ensured.tried <=> ensured.due)


\* the directories in the cache whose entry is not pinned
Unpinned == {d \in DirNames : g_map[d] # 0 /\ entries[g_map[d]].pins = 0}

\* the position of the directory d in the sequence q
PosIn(q, d) == CHOOSE i \in 1..Len(q) : q[i] = d

\* the directory v leaves the cache in this step
Evicted(v) == g_map[v] # 0 /\ g_map'[v] = 0

\* C21: the cache never holds more than SEG_CACHE_MAX entries, and an
\* eviction removes an unpinned entry that no other unpinned entry precedes
\* in age (none was created or touched longer ago)
C21_CapacityAndLru ==
  /\ [](MapSize(g_map) <= cache_max)
  /\ [][\A v \in DirNames :
          Evicted(v) =>
            /\ v \in Unpinned
            /\ \A u \in Unpinned : PosIn(recency, u) <= PosIn(recency, v)]_vars

(***************************************************************************)
(* The builder's work queue                                                 *)
(***************************************************************************)
\* the queue the reader's next push goes to
PushTarget == IF variant = "level5" THEN 0 ELSE rr

\* C22: a work queue never holds more items than its capacity; while the
\* queue the reader pushes to is full the reader does not advance, and an
\* item is only ever appended to a queue that was below capacity.
C22_QueueBounded ==
  /\ [](\A q \in 0..(MaxWorkers - 1) : Len(queues[q]) <= QueueCap)
  /\ [][/\ (phase = "ingest" /\ Len(queues[PushTarget]) >= QueueCap)
            => rdPos' = rdPos
        /\ \A q \in 0..(MaxWorkers - 1) :
              Len(queues'[q]) > Len(queues[q]) => Len(queues[q]) < QueueCap]_vars

\* the reader has more input but its target queue is full
C22_Witness ==
  /\ phase = "ingest"
  /\ rdPos > 0
  /\ rdPos < Len(corpus)
  /\ Len(queues[PushTarget]) = QueueCap

\* the reader has pushed its last batch and closed every queue
AllClosed == \A q \in 0..(MaxWorkers - 1) : closed[q]

\* the join has completed: every worker thread has ended with its queue drained
Joined ==
  /\ phase # "ingest"
  /\ \A t \in Workers : wk[t].pc = "done" /\ queues[QOf(t)] = <<>>

\* lines that become documents
Indexable == {l \in 1..Len(corpus) : Len(CapTokens(corpus[l])) >= K}

\* the lines the workers have taken so far
Taken == UNION {Range(wk[t].doc_ids) : t \in Workers}

RECURSIVE TrueBase(_)
TrueBase(t) == IF t = 0 THEN 0 ELSE TrueBase(t - 1) + Len(wk[t - 1].doc_ids)

AfterJoin == phase # "ingest" /\ \A t \in Workers : wk[t].pc = "done"

\* C24: when the workers together hold more documents than a u32 counts, the
\* build ends after the join with a non-zero status and the published files
\* are untouched; and no base[t] is ever a wrapped value.
C24_NoDocIdWrap ==
  /\ (AfterJoin /\ TotalDocs(0) > U32_MAX)
       => /\ phase = "exited"
          /\ exitCode > 0
          /\ fsBin = PrevIndex
          /\ fsDocids = PrevDocids
  /\ \A t \in Workers : t + 1 <= Len(bases) => bases[t + 1] = TrueBase(t)

(***************************************************************************)
(* The published index as a function of the assignment of lines to workers *)
(***************************************************************************)
\* the ascending sequence of a set of (hash, doc) pairs
RECURSIVE SortPairs(_)
SortPairs(S) ==
  IF S = {} THEN <<>>
  ELSE LET m == CHOOSE x \in S : \A y \in S \ {x} : pair_less(x, y)
       IN <<m>> \o SortPairs(S \ {m})

\* the (hash, global doc) pairs of the documents each worker took, whatever
\* runs they were flushed into
AssignedPairs ==
  UNION {UNION {{<<r[1], TrueBase(t) + r[2]>> : r \in Range(wk[t].runs[i])}
                  : i \in 1..Len(wk[t].runs)} : t \in Workers}

\* the CSR sections that depend only on the assignment
AssignedCsr ==
  EmitCsr5(SortPairs(AssignedPairs), 1,
           [uniq |-> <<>>, off |-> <<>>, did |-> <<>>,
            have_hash |-> FALSE, cur_h |-> 0, last_doc |-> NoDoc])

AssignedIds == Concat([i \in 1..numWorkers |-> wk[i - 1].doc_ids])

\* the runs worker t writes for the lines it took, in the order it took them
ExpectedRuns(t) == Flush(ProcessLines(InitWorker, wk[t].doc_ids)).runs

\* the (hash, local doc) pairs of all workers
LocalPairs ==
  UNION {UNION {Range(wk[t].runs[i]) : i \in 1..Len(wk[t].runs)} : t \in Workers}

RECURSIVE RunCount(_)
RunCount(t) == IF t >= numWorkers THEN 0 ELSE Len(wk[t].runs) + RunCount(t + 1)

\* what a build publishes for an assignment: level5 the CSR of the global
\* pairs; v3 the same when the runs went through reduce_runs_batched, and the
\* CSR of the local pairs when they did not (all_run_bases is reset to 0)
ExpectedCsr ==
  IF variant = "level5" \/ RunCount(0) > MERGE_FANIN
  THEN AssignedCsr
  ELSE EmitCsr5(SortPairs(LocalPairs), 1,
                [uniq |-> <<>>, off |-> <<>>, did |-> <<>>,
                 have_hash |-> FALSE, cur_h |-> 0, last_doc |-> NoDoc])

\* C25: the runs a worker has written are determined by the lines it took,
\* and every published index_native.bin and doc id list is determined by the
\* builder, the input, the worker count and the lines each worker took: the
\* order of the threads' steps and of equal heap keys does not show.
C25_OutputDeterminedByAssignment ==
  /\ \A t \in Workers : wk[t].pc = "done" => wk[t].runs = ExpectedRuns(t)
  /\ fsBin.build = "new" =>
       /\ fsBin.N_docs = Len(AssignedIds)
       /\ fsBin.docs_meta = [i \in 1..Len(AssignedIds) |->
                              Len(CapTokens(corpus[AssignedIds[i]]))]
       /\ fsBin.doc_ids = (IF variant = "v3" THEN AssignedIds ELSE <<>>)
       /\ fsBin.uniq = ExpectedCsr.uniq
       /\ fsBin.off = ExpectedCsr.off
       /\ fsBin.did = ExpectedCsr.did
  /\ fsDocids.build = "new" => fsDocids.ids = AssignedIds

\* a two-worker build in which each worker indexed documents, the runs were
\* reduced, and the index was published
C25_Witness ==
  /\ exitCode = 0
  /\ pass > 0
  /\ numWorkers = MaxWorkers
  /\ \A t \in Workers : wk[t].doc_ids # <<>>
  /\ \E t \in Workers : Len(wk[t].doc_ids) > 1

(***************************************************************************)
(* Text pipeline                                                            *)
(***************************************************************************)
\* fnv1a64_bytes: FNV-1a from the offset basis over a byte string
fnv1a64_bytes(bytes) == fnv_bytes(FNV_OFFSET % Pow2(HashBits), bytes)

\* the tokens ts[i..j] joined by single spaces
RECURSIVE JoinSpace(_, _, _)
JoinSpace(ts, i, j) ==
  IF i = j THEN ts[i] ELSE ts[i] \o <<SPACE>> \o JoinSpace(ts, i + 1, j)

\* C26: for a normalized text, the spans cut the same tokens as simple_tokens,
\* and for every window of K tokens hash_shingle_tokens_spans and
\* hash_shingle_tokens (via build_shingles) give the same value: FNV-1a over
\* the K tokens joined by single 0x20 bytes.
C26_SpanAndTokenHashersAgree ==
  (txDone = {"spans", "tokens"}) =>
    /\ SpanBytes(tx_norm, tx_spans) = tx_toks
    /\ Len(tx_span_hashes) = Max(0, Len(tx_toks) - K + 1)
    /\ tx_span_hashes = tx_tok_hashes
    /\ \A i \in 1..Len(tx_tok_hashes) :
         tx_tok_hashes[i] = fnv1a64_bytes(JoinSpace(tx_toks, i, i + K - 1))

\* a normalized text of three tokens, one of them a two-byte letter, hashed
\* by both shinglers
C26_Witness ==
  /\ txDone = {"spans", "tokens"}
  /\ Len(tx_span_hashes) = 2
  /\ \E i \in 1..Len(tx_toks) : Len(tx_toks[i]) > 1
  /\ tx_span_hashes[1] # tx_span_hashes[2]

\* the ASCII base letter of a Latin letter with a diacritic
BaseLetter(cp) ==
  IF cp = 233 THEN 101        \* U+00E9 -> e
  ELSE IF cp = 236 THEN 105   \* U+00EC -> i
  ELSE IF cp = 220 THEN 85    \* U+00DC -> U
  ELSE cp

\* the text with every such letter written as its base letter
RECURSIVE PlainText(_, _)
PlainText(data, i) ==
  IF i >= Len(data) THEN <<>>
  ELSE LET d == decode_utf8_cp(data, i)
       IN (IF d.ok THEN append_utf8_cp(BaseLetter(d.cp)) ELSE <<data[i + 1]>>)
          \o PlainText(data, d.i)

HasDiacritic(data) == PlainText(data, 0) # data

\* C27: a text with accented Latin letters and the same text written with
\* the base letters normalize to the same tokens, hence to the same shingle
\* hashes.
C27_DiacriticsFoldToBase ==
  (tPc = "norm" /\ HasDiacritic(tx_text)) =>
    LET plain == normalize_for_shingles_simple(PlainText(tx_text, 0))
    IN /\ simple_tokens(tx_norm) = simple_tokens(plain)
       /\ build_shingles(simple_tokens(tx_norm), K)
            = build_shingles(simple_tokens(plain), K)


(***************************************************************************)
(* C28: the run-reduction loop terminates for every number of runs and     *)
(* every configured fan-in; each pass strictly decreases the number of     *)
(* live runs; when the loop returns the number of live runs is at most the *)
(* fan-in.                                                                 *)
(***************************************************************************)
C28_ReduceTerminates ==
  /\ [][(phase = "reduce" /\ pass' # pass)
          => (pass' = pass + 1 /\ Len(runs') < Len(runs) /\ Len(runs') >= 1)]_vars
  /\ [][(phase = "reduce" /\ phase' = "csr") => Len(runs) <= Fanin]_vars
  /\ [](Fanin >= 2)
  /\ (phase = "reduce") ~> (phase # "reduce" \/ Len(runs) <= Fanin)

C28_Witness == pass >= 2 /\ phase = "csr" /\ Len(runs) <= Fanin

(***************************************************************************)
(* C29: every merge pass emits its records in strictly ascending           *)
(* (h, global doc) order, and the set of pairs it emits is the set of      *)
(* distinct (h, base + local doc) pairs of its input runs.                 *)
(***************************************************************************)
StrictlyAscending(recs) ==
  \A i \in 1..(Len(recs) - 1) : heap_less(recs[i], recs[i + 1])

\* the (h, global doc) pairs a run file stands for
GlobalPairs(run) ==
  {<<run.recs[i][1],
     IF run.kind = 1 THEN TrueBase(run.tid) + run.recs[i][2] ELSE run.recs[i][2]>> :
     i \in 1..Len(run.recs)}

MergePassDone == phase = "reduce" /\ pass' = pass + 1

C29_MergePassSortedAndExact ==
  [][MergePassDone =>
       LET groups == Chunks(runs, Fanin)
       IN /\ Len(runs') = Len(groups)
          /\ \A g \in 1..Len(groups) :
               /\ StrictlyAscending(runs'[g].recs)
               /\ {runs'[g].recs[i] : i \in 1..Len(runs'[g].recs)}
                    = UNION {GlobalPairs(groups[g][i]) : i \in 1..Len(groups[g])}]_vars

(***************************************************************************)
(* C30: when a run file read by a merge pass or by the final CSR emission  *)
(* is not sorted by (h, doc), the build ends with a non-zero status and    *)
(* neither published file is replaced.                                     *)
(***************************************************************************)
UnsortedRun == \E i \in 1..Len(runs) : ~IsSortedPairs(runs[i].recs)

\* a merge pass or the final merge has read the live runs in this step
RunsRead == phase = "reduce" /\ (pass' # pass \/ phase' # "reduce")

C30_UnsortedRunAborts ==
  /\ [][(UnsortedRun /\ RunsRead) =>
          (phase' = "exited" /\ exitCode' \notin {-1, 0}
           /\ fsBin' = fsBin /\ fsDocids' = fsDocids)]_vars
  /\ []((phase = "exited" /\ UnsortedRun) => (exitCode # 0 /\ fsBin.build # "new"))

(***************************************************************************)
(* C31: at least one seed is used whenever a query term has                *)
(* df <= max_df_for_seed; at most fetch_per_k seeds are used; and when     *)
(* more than one seed is used the sum of their df is at most               *)
(* max_sum_df_seeds (if that is not 0) and, in every configuration, at     *)
(* most hard_max_sum_df_seeds.                                             *)
(***************************************************************************)
RECURSIVE SumDf(_)
SumDf(s) == IF s = <<>> THEN 0 ELSE Head(s).df + SumDf(Tail(s))

\* some hash of the query has a posting list of 1..max_df_for_seed documents
HasSeedableTerm ==
  \E i \in 1..Len(q_hashes) :
    LET p == get_postings(Idx, q_hashes[i])
    IN p.found /\ p.R - p.L > 0 /\ p.R - p.L <= Idx.cfg.max_df_for_seed

SeedsChosen == sPc \in {"seeded", "cands", "merged"}

C31_SeedBudget ==
  /\ [][(sPc = "hashed" /\ HasSeedableTerm) => sPc' = "terms"]_vars
  /\ [][sPc = "terms" => (sPc' = "seeded" /\ Len(seeds') >= 1)]_vars
  /\ [](SeedsChosen =>
          /\ Len(seeds) >= 1
          /\ Len(seeds) <= Idx.cfg.fetch_per_k
          /\ (Len(seeds) > 1 =>
                /\ (Idx.cfg.max_sum_df_seeds # 0
                      => SumDf(seeds) <= Idx.cfg.max_sum_df_seeds)
                /\ SumDf(seeds) <= Idx.cfg.hard_max_sum_df_seeds))

(***************************************************************************)
(* C32: after the intersection pass inter[i] is min(65535, the number of   *)
(* distinct query terms whose posting slice holds candidate document i),   *)
(* for every candidate i that survived the candidate cap.                  *)
(***************************************************************************)
\* the documents of the posting slice of hash h in the index x
SliceDocs(x, h) ==
  LET p == get_postings(x, h)
  IN IF p.found THEN {x.did[n] : n \in (p.L + 1)..p.R} ELSE {}

\* the distinct query shingles whose posting slice holds document d
TermsHolding(x, d) == {h \in TextHashes(query) : d \in SliceDocs(x, h)}

C32_InterCountsQueryTerms ==
  sPc = "merged" =>
    \A i \in 1..Len(cand) :
      inter[i] = Min(U16_MAX, Cardinality(TermsHolding(Idx, cand[i].did)))

(***************************************************************************)
(* C33: the hits array of a successful multi-search holds exactly          *)
(* min(top_k clamped to TOPK_HARD_MAX, number of aggregation keys) entries *)
(* in non-increasing score order, and no aggregation key left out scores   *)
(* strictly higher than one that is included.                              *)
(***************************************************************************)
MsSucceeded(c) == ms[c].pc = "done" /\ ms[c].ret.ok

C33_GlobalTopK ==
  \A c \in Callers :
    MsSucceeded(c) =>
      LET hs == ms[c].ret.hits
          all == {hit_json(ms[c].agg, x) : x \in DOMAIN ms[c].agg}
          k == Min(ms[c].top_k, TOPK_HARD_MAX)
      IN /\ Len(hs) = Min(k, Cardinality(DOMAIN ms[c].agg))
         /\ \A i \in 1..Len(hs) : \A j \in 1..Len(hs) : i # j => hs[i].doc_uid # hs[j].doc_uid
         /\ Range(hs) \subseteq all
         /\ \A i \in 1..(Len(hs) - 1) : ~score_greater(hs[i + 1], hs[i])
         /\ \A a \in all \ Range(hs) : \A i \in 1..Len(hs) : ~score_greater(a, hs[i])

\* more keys than places, with a left-out key scoring below an included one
C33_Witness ==
  \E c \in Callers :
    /\ MsSucceeded(c)
    /\ ms[c].top_k > TOPK_HARD_MAX
    /\ Len(ms[c].ret.hits) = TOPK_HARD_MAX
    /\ Cardinality(DOMAIN ms[c].agg) > TOPK_HARD_MAX
    /\ \E x \in DOMAIN ms[c].agg :
         /\ hit_json(ms[c].agg, x) \notin Range(ms[c].ret.hits)
         /\ score_greater(ms[c].ret.hits[1], hit_json(ms[c].agg, x))

(***************************************************************************)
(* C34: after any load the effective configuration satisfies               *)
(* 1 <= fetch_per_k <= FETCH_PER_K_HARD_MAX,                               *)
(* 1 <= max_cands_doc <= MAX_CANDS_DOC_HARD_MAX,                           *)
(* MAX_Q_UNIQ9_MIN <= max_q_uniq9 <= MAX_Q_UNIQ9_HARD_MAX,                 *)
(* hard_max_sum_df_seeds <= MAX_SUM_DF_HARD_MAX, w_min_doc >= 1,           *)
(* w_min_query >= 1 and alpha, w9 in [0, 1], whatever index_config.json    *)
(* holds.                                                                  *)
(***************************************************************************)
InRanges(c) ==
  /\ 1 <= c.fetch_per_k /\ c.fetch_per_k <= FETCH_PER_K_HARD_MAX
  /\ 1 <= c.max_cands_doc /\ c.max_cands_doc <= MAX_CANDS_DOC_HARD_MAX
  /\ MAX_Q_UNIQ9_MIN <= c.max_q_uniq9 /\ c.max_q_uniq9 <= MAX_Q_UNIQ9_HARD_MAX
  /\ c.hard_max_sum_df_seeds <= MAX_SUM_DF_HARD_MAX
  /\ c.w_min_doc >= 1
  /\ c.w_min_query >= 1
  /\ 0 <= c.alpha /\ c.alpha <= 100
  /\ 0 <= c.w9 /\ c.w9 <= 100

C34_ConfigClamped ==
  (ldPc = "done" /\ ldRet = "ok") => InRanges(Idx.cfg)

(***************************************************************************)
(* C35: for any index directory at most one load is in progress at any     *)
(* time, evictions during a load included, and a query that needs a        *)
(* directory another query is loading waits for that load instead of       *)
(* starting its own.                                                       *)
(***************************************************************************)
Loading(c) == ms[c].pc = "loading"

LoadingDir(c) == entries[ms[c].entry].dir

\* the call c is about to make sure of a directory that o is loading
NeedsLoadOf(c, o) ==
  /\ c # o
  /\ ms[c].pc = "ensure"
  /\ Loading(o)
  /\ entries[ms[c].entry].dir = LoadingDir(o)

C35_OneLoadPerDirectory ==
  /\ [](\A c \in Callers : \A o \in Callers :
          (c # o /\ Loading(c) /\ Loading(o)) => LoadingDir(c) # LoadingDir(o))
  /\ [][\A c \in Callers : \A o \in Callers :
          NeedsLoadOf(c, o) => ms'[c].pc = "ensure"]_vars

(***************************************************************************)
(* C36: the hits a query returns on a loaded engine depend only on the     *)
(* query text, top_k and the index: every returned hit list is one a        *)
(* thread with untouched scratch buffers returns for the same arguments,    *)
(* whatever the thread ran before and whatever other threads are running,   *)
(* and no step of a query changes the loaded index.                         *)
(***************************************************************************)
\* the index as loaded, without the reference count of its shared_ptr
IndexState == <<g_index, [i \in DOMAIN objs |-> [objs[i] EXCEPT !.refs = 0]]>>

C36_QueryIsolated ==
  /\ [](\A t \in QThreads :
          th[t].pc = "done" =>
            th[t].out \in fresh_outs(engine, Idx, th[t].query, th[t].top_k,
                                     th[t].max_hits))
  /\ [][IndexState' = IndexState]_vars

\* a thread has returned hits from its second query, run on the buffers its
\* first query left, while the other thread is inside a call
C36_Witness ==
  \E t \in QThreads : \E o \in QThreads :
    /\ t # o
    /\ th[t].pc = "done"
    /\ th[t].n = 2
    /\ th[t].out # <<>>
    /\ tls[tls_of(t)].cand # <<>>
    /\ th[o].pc \in {"seeded", "cands"}

(***************************************************************************)
(* C37: an engine load that runs while the level5 builder publishes ends   *)
(* in failure or with an index whose postings and docs_meta come from the   *)
(* same build as its doc_ids: the index_native.bin of one build is never    *)
(* combined with the index_native_docids.json of another.                   *)
(***************************************************************************)
LoadedObj == IF engine = "SearchEngine" THEN objs[1] ELSE objs[g_index]

C37_LoadSeesOneBuild ==
  (ldPc = "done" /\ ldRet = "ok") => LoadedObj.file.build = dirDocids.build

(***************************************************************************)
(* C38: the multi-search result does not depend on the order of dirs: the  *)
(* aggregation a successful call ended with is one that every permutation   *)
(* of its dirs can give, key by key with the same score, j9, c9, cand_hits  *)
(* and found_in.                                                            *)
(***************************************************************************)
\* the permutations of the list ds
Perms(ds) == {[i \in 1..Len(ds) |-> ds[o[i]]] : o \in Orders(1..Len(ds))}

SameFrac(u, v) == u[1] * v[2] = v[1] * u[2]

\* two aggregation maps agree on score, j9, c9, cand_hits and found_in
SameAgg(a, b) ==
  /\ DOMAIN a = DOMAIN b
  /\ \A x \in DOMAIN a :
       /\ a[x].num * b[x].den = b[x].num * a[x].den
       /\ SameFrac(a[x].J, b[x].J)
       /\ SameFrac(a[x].C, b[x].C)
       /\ a[x].cand_hits = b[x].cand_hits
       /\ a[x].found_in = b[x].found_in

C38_DirOrderIrrelevant ==
  \A c \in Callers :
    (ms[c].pc = "done" /\ ms[c].ret.ok) =>
      \A ds \in Perms(ms[c].dirs) :
        \E b \in ServingAggs(ds, ms[c].query, ms[c].local_k, Len(ds)) :
          SameAgg(ms[c].agg, b)

(***************************************************************************)
(* C39: in the level5 builder every non-empty input line is processed by   *)
(* exactly one worker exactly once: at any time the lines counted by the    *)
(* workers and the lines waiting in the queue add up to the lines pushed,   *)
(* after the join docs_ok + docs_bad over all workers equals the number of  *)
(* lines pushed, no document is held by two workers or twice by one, and    *)
(* every (hash, doc) pair a worker emitted is in one of its run files       *)
(* before the merge starts.                                                 *)
(***************************************************************************)
RECURSIVE LinesCounted(_)
LinesCounted(t) ==
  IF t >= numWorkers THEN 0
  ELSE wk[t].docs_ok + wk[t].docs_bad + LinesCounted(t + 1)

RECURSIVE LinesQueued(_)
LinesQueued(items) ==
  IF items = <<>> THEN 0 ELSE Len(Head(items)) + LinesQueued(Tail(items))

\* the pairs worker t pushed onto run_recs for the documents it holds
EmittedBy(t) ==
  UNION {{<<h, i - 1>> : h \in Range(DocHashes(CapTokens(corpus[wk[t].doc_ids[i]])))} :
           i \in 1..Len(wk[t].doc_ids)}

\* the pairs in the run files of worker t
InRunsOf(t) == UNION {Range(wk[t].runs[i]) : i \in 1..Len(wk[t].runs)}

C39_EveryLineOnce ==
  variant = "level5" =>
    /\ LinesCounted(0) + LinesQueued(queues[0]) = rdPos
    /\ \A t \in Workers : \A u \in Workers :
         \A i \in 1..Len(wk[t].doc_ids) : \A j \in 1..Len(wk[u].doc_ids) :
           wk[t].doc_ids[i] = wk[u].doc_ids[j] => (t = u /\ i = j)
    /\ \A t \in Workers : wk[t].docs_ok = Len(wk[t].doc_ids)
    /\ \A t \in Workers : wk[t].pairs_emitted = Cardinality(EmittedBy(t))
    /\ AfterJoin =>
         /\ LinesCounted(0) = rdPos
         /\ rdPos = Len(corpus)
         /\ \A t \in Workers : wk[t].run_recs = <<>> /\ EmittedBy(t) = InRunsOf(t)

\* both workers of a level5 build have ended, each with documents and pairs
\* in its run files, one of them with more than one run file, and a line was
\* counted as bad
C39_Witness ==
  /\ variant = "level5"
  /\ numWorkers = 2
  /\ AfterJoin
  /\ \A t \in Workers : wk[t].docs_ok > 0 /\ InRunsOf(t) # {}
  /\ \E t \in Workers : Len(wk[t].runs) > 1
  /\ \E t \in Workers : wk[t].docs_bad > 0

(***************************************************************************)
(* The cache map and the LRU list                                           *)
(***************************************************************************)
\* the directory keys of g_map
MapKeys == {d \in DirNames : g_map[d] # 0}

\* the directory keys of the nodes of g_lru
LruKeys == {g_lru[i].key : i \in 1..Len(g_lru)}

\* the lru_it of the cached entry of d refers to a node of g_lru holding d
ItOnOwnKey(d) ==
  \E i \in 1..Len(g_lru) :
    g_lru[i].owner = g_map[d] /\ g_lru[i].cur /\ g_lru[i].key = d

\* C40: whenever g_cache_mu is free (every cache operation is one step under
\* the mutex), g_map and g_lru hold the same directory keys, each key once in
\* the list, and the lru_it of every cached entry refers to the node holding
\* the entry's own key
C40_MapAndLruAgree ==
  /\ MapKeys = LruKeys
  /\ \A i \in 1..Len(g_lru) : \A j \in 1..Len(g_lru) :
       g_lru[i].key = g_lru[j].key => i = j
  /\ \A d \in MapKeys : entries[g_map[d]].dir = d /\ ItOnOwnKey(d)

\* a pinned entry was rotated to the front while the entry made for another
\* caller was evicted, and a touch has moved a key since
C40_Witness ==
  /\ \E c \in Callers :
       /\ ms[c].entry # 0
       /\ g_map[entries[ms[c].entry].dir] # ms[c].entry
  /\ \E c \in Callers : ms[c].dirs_ok > 0
  /\ \E d \in MapKeys : entries[g_map[d]].pins > 0
  /\ g_lru # <<>>

=============================================================================
